---- MODULE Spec2Model ----
(***************************************************************************)
(* Model of the height-map bin-packing engine of Bin-Packing-Algorithm:    *)
(* core_utils.py (totes and cases), simulation.py (Search, Commit,         *)
(* Finalize and the generator driver) and the tote configuration that      *)
(* app.py builds from the sidebar inputs.                                  *)
(*                                                                         *)
(* Lengths are integers in millimetres.  Python floats that hold ratios    *)
(* (utilization percent, progress) are modelled by the exact fraction      *)
(* <<numerator, denominator>> in lowest terms.  Status messages and the    *)
(* print calls are not modelled.                                           *)
(***************************************************************************)
EXTENDS Integers, Sequences, FiniteSets, TLC

VARIABLES
    current_tote_config,            \* the configuration the run was started with
    total_cases,                    \* len(case_data_list)
    case_data_list,                 \* the raw records the loop has read so far
    processed_cases,                \* items the loop has handled
    next_tote_id,
    current_tote,
    all_processed_totes_full_data,
    visualization_output_list,
    unplaceable_cases_log,
    search_calls,                   \* calls of attempt_place_case made for the last item
    yielded,                        \* the snapshot of the last yield
    pc,                             \* "start", "loop", "done", "raised"; "idle": no generator yet
    session_state                   \* app.py: st.session_state, the keys of the run/pause machine

\* the generator: its arguments, its locals and its position
generator_vars ==
    <<current_tote_config, total_cases, case_data_list, processed_cases,
      next_tote_id, current_tote, all_processed_totes_full_data,
      visualization_output_list, unplaceable_cases_log, search_calls,
      yielded, pc>>

vars == <<current_tote_config, total_cases, case_data_list, processed_cases,
          next_tote_id, current_tote, all_processed_totes_full_data,
          visualization_output_list, unplaceable_cases_log, search_calls,
          yielded, pc, session_state>>

(***************************************************************************)
(* Bounds of the model.                                                    *)
(***************************************************************************)
MaxItems == 3

(***************************************************************************)
(* Arithmetic helpers.                                                     *)
(***************************************************************************)
Max2(a, b) == IF a >= b THEN a ELSE b

\* math.ceil(a / b) for integers a and b > 0
Ceil(a, b) == -((-a) \div b)

RECURSIVE Gcd(_, _)
Gcd(a, b) == IF b = 0 THEN a ELSE Gcd(b, a % b)

\* the fraction n/d (d > 0, n >= 0) in lowest terms
Frac(n, d) == LET g == Gcd(n, d) IN IF n = 0 THEN <<0, 1>> ELSE <<n \div g, d \div g>>

\* a utilization left as a fraction of 1
fraction_of_one(used, total) == Frac(used, total)

\* (used / total) * 100.0, as a fraction in lowest terms
Percent(used, total) ==
    LET f == Frac(used, total)
        g == Gcd(100, f[2])
    IN  <<(100 \div g) * f[1], f[2] \div g>>

RECURSIVE SumVolumes(_)
SumVolumes(items) ==
    IF items = <<>> THEN 0 ELSE items[1].volume + SumVolumes(Tail(items))

SetMax(S) == CHOOSE m \in S : \A v \in S : v <= m
SetMin(S) == CHOOSE m \in S : \A v \in S : m <= v

(***************************************************************************)
(* Inputs: the tote configurations and the raw item records.               *)
(***************************************************************************)
\* app.py: the configuration built from the four sidebar inputs
dynamic_tote_config(L, W, H, res) ==
    [ TOTE_MAX_LENGTH       |-> L,
      TOTE_MAX_WIDTH        |-> W,
      TOTE_MAX_HEIGHT       |-> H,
      TOTE_MAX_VOLUME       |-> L * W * H,
      HEIGHT_MAP_RESOLUTION |-> res,
      GRID_DIM_X            |-> Max2(1, Ceil(L, res)),
      GRID_DIM_Y            |-> Max2(1, Ceil(W, res)) ]

\* sidebar inputs <<length, width, height, resolution>> tried by the model:
\* the 1000 mm cube on a 10 x 10 grid, a 5 x 5 grid, and a tote whose length
\* is not a multiple of the resolution
SidebarInputs ==
    { <<1000, 1000, 1000, 100>>,
      <<500, 500, 1000, 100>>,
      <<250, 200, 300, 100>> }

\* configurations a caller may hand to the generator directly, which reads
\* the seven keys as they are: the 250 x 200 x 300 tote as app.py builds it,
\* and the same tote with a TOTE_MAX_VOLUME that is not length * width *
\* height, with GRID_DIM_X = 0, with HEIGHT_MAP_RESOLUTION = 0, and with
\* TOTE_MAX_HEIGHT = 0
RawConfigs ==
    LET c == dynamic_tote_config(250, 200, 300, 100)
    IN  { c,
          [c EXCEPT !.TOTE_MAX_VOLUME = 5000000],
          [c EXCEPT !.GRID_DIM_X = 0],
          [c EXCEPT !.HEIGHT_MAP_RESOLUTION = 0],
          [c EXCEPT !.TOTE_MAX_HEIGHT = 0, !.TOTE_MAX_VOLUME = 0] }

\* raw records <<length, width, height>> an input stream may hold: the items
\* of the scenarios, items small enough for the smallest tote, an item longer
\* than every tote, and a record with a zero dimension
ItemRecords ==
    { <<500, 500, 200>>,
      <<600, 600, 600>>,
      <<500, 500, 500>>,
      <<300, 100, 100>>,
      <<1100, 100, 100>>,
      <<0, 100, 100>> }

(***************************************************************************)
(* core_utils.py                                                           *)
(***************************************************************************)
INF == -1       \* float('inf'): "no placement found yet"
None == <<>>    \* Python None in the placement fields of an unplaced case

create_new_empty_tote(tote_id, tote_config) ==
    [ id                    |-> tote_id,
      max_length            |-> tote_config.TOTE_MAX_LENGTH,
      max_width             |-> tote_config.TOTE_MAX_WIDTH,
      max_height            |-> tote_config.TOTE_MAX_HEIGHT,
      max_volume            |-> tote_config.TOTE_MAX_VOLUME,
      grid_dim_x            |-> tote_config.GRID_DIM_X,
      grid_dim_y            |-> tote_config.GRID_DIM_Y,
      height_map_resolution |-> tote_config.HEIGHT_MAP_RESOLUTION,
      items                 |-> <<>>,
      remaining_volume      |-> tote_config.TOTE_MAX_VOLUME,
      height_map            |-> [x \in 0..(tote_config.GRID_DIM_X - 1) |->
                                    [y \in 0..(tote_config.GRID_DIM_Y - 1) |-> 0]],
      utilization_percent   |-> <<0, 1>> ]

get_case_properties(sku, length, width, height) ==
    LET volume == length * width * height
        orientations ==
            << <<length, width, height>>, <<length, height, width>>,
               <<width, length, height>>, <<width, height, length>>,
               <<height, length, width>>, <<height, width, length>> >>
        clamp(o) == <<Max2(1, o[1]), Max2(1, o[2]), Max2(1, o[3])>>
    IN  [ sku                      |-> sku,
          original_dims            |-> <<Max2(1, length), Max2(1, width), Max2(1, height)>>,
          volume                   |-> Max2(1, volume),
          orientations             |-> [k \in 1..6 |-> clamp(orientations[k])],
          chosen_orientation_dims  |-> None,
          position_in_tote_grid    |-> None,
          placement_z_level        |-> None,
          interim_tote_utilization_at_placement |-> <<0, 1>> ]

(***************************************************************************)
(* simulation.py: Search (attempt_place_case)                              *)
(***************************************************************************)
\* a footprint that keeps one more cell than the dimension covers
case_grid_with_margin(dim, tote_obj) ==
    Max2(1, Ceil(dim, tote_obj.height_map_resolution)) + 1

\* footprint of an oriented dimension in grid cells (lines 21-22, 59-60)
case_grid(dim, tote_obj) == Max2(1, Ceil(dim, tote_obj.height_map_resolution))

\* the cells the two offset loops visit from an anchor
FootprintCells(start_grid_x, start_grid_y, case_grid_L, case_grid_W) ==
    { <<start_grid_x + C_offset, start_grid_y + R_offset>> :
        C_offset \in 0..(case_grid_L - 1), R_offset \in 0..(case_grid_W - 1) }

InGrid(cell, tote_obj) ==
    /\ 0 <= cell[1] /\ cell[1] < tote_obj.grid_dim_x
    /\ 0 <= cell[2] /\ cell[2] < tote_obj.grid_dim_y

\* lines 32-34: the footprint is dropped when a cell leaves the grid
footprint_valid(tote_obj, cells) == \A c \in cells : InGrid(c, tote_obj)

\* a Search that takes the lowest cell under the footprint for its base
base_z_lowest_cell(tote_obj, cells) ==
    SetMin({ tote_obj.height_map[c[1]][c[2]] : c \in cells })

\* a Search that reads the height map at the anchor cell only
base_z_anchor_cell_only(tote_obj, cells) ==
    LET anchor == CHOOSE a \in cells : \A c \in cells : a[1] <= c[1] /\ a[2] <= c[2]
    IN  Max2(0, tote_obj.height_map[anchor[1]][anchor[2]])

\* lines 26-35: the running max of the height map over the footprint, from 0.0
current_placement_base_z(tote_obj, cells) ==
    SetMax({0} \cup { tote_obj.height_map[c[1]][c[2]] : c \in cells })

\* lines 12-17
NoPlacement ==
    [ can_fit                 |-> FALSE,
      chosen_orientation_dims |-> None,
      position_in_tote_grid   |-> None,
      placement_z_level       |-> INF ]

\* a Search that replaces its best by a candidate of the same base as well
lower_or_equal_to_best(z, best) ==
    best.placement_z_level = INF \/ z <= best.placement_z_level

\* a Search whose tie-break looks at what the previous item left behind
lower_than_best_by_earlier_calls(z, best) ==
    \/ best.placement_z_level = INF
    \/ z < best.placement_z_level
    \/ (search_calls = 2 /\ z = best.placement_z_level)

\* line 40: current_placement_base_z < best_placement_info["placement_z_level"]
LowerThanBest(z, best) == best.placement_z_level = INF \/ z < best.placement_z_level

\* a Search that accepts a candidate whatever its height
try_anchor_ignoring_height(oriented_dims, tote_obj, start_grid_x, start_grid_y, best) ==
    LET cells == FootprintCells(start_grid_x, start_grid_y,
                                case_grid(oriented_dims[1], tote_obj),
                                case_grid(oriented_dims[2], tote_obj))
        z == current_placement_base_z(tote_obj, cells)
    IN  IF footprint_valid(tote_obj, cells) /\ LowerThanBest(z, best)
        THEN [ can_fit                 |-> TRUE,
               chosen_orientation_dims |-> oriented_dims,
               position_in_tote_grid   |-> <<start_grid_x, start_grid_y>>,
               placement_z_level       |-> z ]
        ELSE best

\* lines 26-46: one anchor of one orientation against the running best
TryAnchor(oriented_dims, tote_obj, start_grid_x, start_grid_y, best) ==
    LET cells == FootprintCells(start_grid_x, start_grid_y,
                                case_grid(oriented_dims[1], tote_obj),
                                case_grid(oriented_dims[2], tote_obj))
        z == current_placement_base_z(tote_obj, cells)
    IN  IF ~footprint_valid(tote_obj, cells) THEN best
        ELSE IF z + oriented_dims[3] <= tote_obj.max_height /\ LowerThanBest(z, best)
             THEN [ can_fit                 |-> TRUE,
                    chosen_orientation_dims |-> oriented_dims,
                    position_in_tote_grid   |-> <<start_grid_x, start_grid_y>>,
                    placement_z_level       |-> z ]
             ELSE best

\* line 25: the inner loop over start_grid_x, for one start_grid_y
RECURSIVE ScanRow(_, _, _, _, _, _)
ScanRow(oriented_dims, tote_obj, start_grid_x, start_grid_y, nx, best) ==
    IF start_grid_x >= nx THEN best
    ELSE LET b == TryAnchor(oriented_dims, tote_obj, start_grid_x, start_grid_y, best)
         IN  IF b.can_fit
             THEN ScanRow(oriented_dims, tote_obj, start_grid_x + 1, start_grid_y, nx, b)
             ELSE ScanRow(oriented_dims, tote_obj, start_grid_x + 1, start_grid_y, nx, best)

\* line 24: the outer loop over start_grid_y
RECURSIVE ScanRows(_, _, _, _, _, _)
ScanRows(oriented_dims, tote_obj, start_grid_y, nx, ny, best) ==
    IF start_grid_y >= ny THEN best
    ELSE LET b == ScanRow(oriented_dims, tote_obj, 0, start_grid_y, nx, best)
         IN  IF b.can_fit
             THEN ScanRows(oriented_dims, tote_obj, start_grid_y + 1, nx, ny, b)
             ELSE ScanRows(oriented_dims, tote_obj, start_grid_y + 1, nx, ny, best)

\* line 19: the orientations in enumeration order
RECURSIVE ScanOrientations(_, _, _, _)
ScanOrientations(case_obj, tote_obj, i, best) ==
    IF i > Len(case_obj.orientations) THEN best
    ELSE LET o == case_obj.orientations[i]
             nx == tote_obj.grid_dim_x - case_grid(o[1], tote_obj) + 1
             ny == tote_obj.grid_dim_y - case_grid(o[2], tote_obj) + 1
             b == ScanRows(o, tote_obj, 0, nx, ny, best)
         IN  IF b.can_fit
             THEN ScanOrientations(case_obj, tote_obj, i + 1, b)
             ELSE ScanOrientations(case_obj, tote_obj, i + 1, best)

attempt_place_case(case_obj, tote_obj) ==
    ScanOrientations(case_obj, tote_obj, 1, NoPlacement)

\* a Search that books the item's volume in the tote it looks at
search_reserving_volume(case_obj, tote_obj) ==
    [ tote_obj EXCEPT !.remaining_volume = @ - case_obj.volume ]

\* lines 7-47 assign to locals only: the tote the caller holds after the call
tote_after_search(case_obj, tote_obj) == tote_obj

\* lines 7-47 assign to locals only: the case the caller holds after the call
case_after_search(case_obj, tote_obj) == case_obj

(***************************************************************************)
(* simulation.py: Commit and Finalize                                      *)
(***************************************************************************)
\* lines 51-53 and 73-78: the case with its placement fields written
PlacedCase(case_obj, placement_details, util) ==
    [ case_obj EXCEPT
        !.chosen_orientation_dims = placement_details.chosen_orientation_dims,
        !.position_in_tote_grid   = placement_details.position_in_tote_grid,
        !.placement_z_level       = placement_details.placement_z_level,
        !.interim_tote_utilization_at_placement = util ]

\* a Commit that raises only the cells the item rests on, those that were
\* the highest under the footprint
raised_only_where_item_rests(tote_obj, cells, top) ==
    [ x \in 0..(tote_obj.grid_dim_x - 1) |->
        [ y \in 0..(tote_obj.grid_dim_y - 1) |->
            IF /\ <<x, y>> \in cells
               /\ \A c \in cells : tote_obj.height_map[c[1]][c[2]]
                                        <= tote_obj.height_map[x][y]
            THEN top
            ELSE tote_obj.height_map[x][y] ] ]

\* lines 62-68: the height map after the footprint is raised to the new top
RaisedHeightMap(tote_obj, cells, top) ==
    [ x \in 0..(tote_obj.grid_dim_x - 1) |->
        [ y \in 0..(tote_obj.grid_dim_y - 1) |->
            IF <<x, y>> \in cells THEN top
            ELSE tote_obj.height_map[x][y] ] ]

\* a Commit that takes the item's height for its top, as if it stood on the floor
surface_height_from_floor(placement_z_level, oriented_H) == oriented_H

\* line 57: the top of the case once placed
new_surface_height(placement_z_level, oriented_H) == placement_z_level + oriented_H

\* a Commit that appends the item and forgets the volume bookkeeping
remaining_volume_not_updated(tote_obj, case_obj) == tote_obj.remaining_volume

\* a Commit that books the item's volume twice
remaining_after_booking_twice(tote_obj, case_obj) ==
    tote_obj.remaining_volume - 2 * case_obj.volume

\* line 71
RemainingAfterCommit(tote_obj, case_obj) == tote_obj.remaining_volume - case_obj.volume

\* the tote after add_case_to_tote_and_update_state(case_obj, tote_obj, details)
add_case_to_tote_and_update_state(case_obj, tote_obj, placement_details) ==
    LET o == placement_details.chosen_orientation_dims
        pos == placement_details.position_in_tote_grid
        top == new_surface_height(placement_details.placement_z_level, o[3])
        cells == FootprintCells(pos[1], pos[2],
                                case_grid(o[1], tote_obj), case_grid(o[2], tote_obj))
        remaining == RemainingAfterCommit(tote_obj, case_obj)
        utilized_volume_now == tote_obj.max_volume - remaining
        util == IF tote_obj.max_volume > 0
                THEN Percent(utilized_volume_now, tote_obj.max_volume)
                ELSE <<0, 1>>
    IN  [ tote_obj EXCEPT
            !.height_map       = RaisedHeightMap(tote_obj, cells, top),
            !.items            = Append(tote_obj.items,
                                        PlacedCase(case_obj, placement_details, util)),
            !.remaining_volume = remaining ]

\* a Finalizer that reports the share of the volume that is left
finalized_with_free_share(tote_obj) ==
    [ tote_obj EXCEPT !.utilization_percent =
        IF tote_obj.max_volume > 0 /\ Len(tote_obj.items) > 0
        THEN Percent(tote_obj.remaining_volume, tote_obj.max_volume)
        ELSE <<0, 1>> ]

\* lines 82-86: the tote with its final utilization
finalized_tote(tote_obj) ==
    [ tote_obj EXCEPT !.utilization_percent =
        IF tote_obj.max_volume > 0 /\ Len(tote_obj.items) > 0
        THEN Percent(tote_obj.max_volume - tote_obj.remaining_volume, tote_obj.max_volume)
        ELSE <<0, 1>> ]

\* a Finalizer that writes the tote over the last stored record
store_over_last_record(tote_obj, target_list) ==
    IF target_list = <<>> THEN <<finalized_tote(tote_obj)>>
    ELSE [target_list EXCEPT ![Len(target_list)] = finalized_tote(tote_obj)]

\* line 87: the target list with a deep copy of the finalized tote appended
finalize_and_store_tote(tote_obj, target_list) ==
    Append(target_list, finalized_tote(tote_obj))

(***************************************************************************)
(* simulation.py: the generator run_simulation_for_visualization_data      *)
(***************************************************************************)
\* a placement record that leaves the position in grid cells
vis_record_in_grid_units(tote, item) ==
    [ tote_id                |-> tote.id,
      tote_dimensions_mm     |-> <<tote.max_length, tote.max_width, tote.max_height>>,
      case_sku               |-> item.sku,
      original_case_dims_mm  |-> item.original_dims,
      placed_case_dims_mm    |-> item.chosen_orientation_dims,
      position_mm            |-> << item.position_in_tote_grid[1],
                                    item.position_in_tote_grid[2],
                                    item.placement_z_level >>,
      current_tote_utilization_percent |-> item.interim_tote_utilization_at_placement ]

\* lines 229-241 (and 245-257, 286-298): one flat placement record
VisRecord(tote, item) ==
    [ tote_id                |-> tote.id,
      tote_dimensions_mm     |-> <<tote.max_length, tote.max_width, tote.max_height>>,
      case_sku               |-> item.sku,
      original_case_dims_mm  |-> item.original_dims,
      placed_case_dims_mm    |-> item.chosen_orientation_dims,
      position_mm            |-> << item.position_in_tote_grid[1] * tote.height_map_resolution,
                                    item.position_in_tote_grid[2] * tote.height_map_resolution,
                                    item.placement_z_level >>,
      current_tote_utilization_percent |-> item.interim_tote_utilization_at_placement ]

\* the records of the totes of a list, tote by tote, item by item
RECURSIVE VisRecordsOf(_)
VisRecordsOf(totes) ==
    IF totes = <<>> THEN <<>>
    ELSE [ i \in 1..Len(totes[1].items) |-> VisRecord(totes[1], totes[1].items[i]) ]
         \o VisRecordsOf(Tail(totes))

\* lines 138-144, 173-179, 261-268, 307-314: what a yield hands to the caller
Snapshot(progress, totes, vis, log, is_final) ==
    [ progress                |-> progress,
      intermediate_totes_data |-> totes,
      intermediate_vis_data   |-> vis,
      unplaceable_log         |-> log,
      is_final                |-> is_final ]

\* line 148
Progress(processed, total) == IF total > 0 THEN Frac(processed, total) ELSE <<0, 1>>

\* line 158
is_fundamentally_too_large_vol(case_obj, tote_config) ==
    case_obj.volume > tote_config.TOTE_MAX_VOLUME

\* a pre-check that compares length and width and leaves the height out
can_orient_ignoring_height(case_obj, tote_config) ==
    \E k \in 1..Len(case_obj.orientations) :
        /\ case_obj.orientations[k][1] <= tote_config.TOTE_MAX_LENGTH
        /\ case_obj.orientations[k][2] <= tote_config.TOTE_MAX_WIDTH

\* lines 159-164
can_orient_to_fit_empty_tote_dims(case_obj, tote_config) ==
    \E k \in 1..Len(case_obj.orientations) :
        /\ case_obj.orientations[k][1] <= tote_config.TOTE_MAX_LENGTH
        /\ case_obj.orientations[k][2] <= tote_config.TOTE_MAX_WIDTH
        /\ case_obj.orientations[k][3] <= tote_config.TOTE_MAX_HEIGHT

\* a pre-check that tests the volume only
too_large_by_volume_only(case_obj, tote_config) ==
    is_fundamentally_too_large_vol(case_obj, tote_config)

\* line 167
FundamentallyTooLarge(case_obj, tote_config) ==
    \/ is_fundamentally_too_large_vol(case_obj, tote_config)
    \/ ~can_orient_to_fit_empty_tote_dims(case_obj, tote_config)

\* a pre-check that reports the dimensions before the volume
skip_reason_dimensions_first(case_obj, tote_config) ==
    IF ~can_orient_to_fit_empty_tote_dims(case_obj, tote_config)
    THEN "Fundamentally too large (dimensions)"
    ELSE "Fundamentally too large (volume)"

\* lines 168, 171
SkipReason(case_obj, tote_config) ==
    IF is_fundamentally_too_large_vol(case_obj, tote_config)
    THEN "Fundamentally too large (volume)"
    ELSE "Fundamentally too large (dimensions)"

\* a volumetric gate that refuses an item that fills the tote exactly
gate_strictly_less(case_obj, tote) ==
    case_obj.volume < tote.remaining_volume

\* a driver without the volumetric gate
gate_always_open(case_obj, tote) == TRUE

\* a volumetric gate that compares the item with the whole tote
gate_against_max_volume(case_obj, tote) == case_obj.volume <= tote.max_volume

\* lines 184, 203
can_fit_volumetrically(case_obj, tote) ==
    case_obj.volume <= tote.remaining_volume

\* lines 186, 205
Admitted(placement_details, case_obj, tote) ==
    placement_details.can_fit /\ can_fit_volumetrically(case_obj, tote)

\* lines 21-22, reached from line 183: the division by height_map_resolution
DividesByZero(case_obj, tote_config, tote) ==
    /\ ~FundamentallyTooLarge(case_obj, tote_config)
    /\ tote.height_map_resolution = 0

\* the locals of the generator that live across yields
Locals(tote, totes, next_id, vis, log) ==
    [ current_tote                  |-> tote,
      all_processed_totes_full_data |-> totes,
      next_tote_id                  |-> next_id,
      visualization_output_list     |-> vis,
      unplaceable_cases_log         |-> log ]

\* lines 167-180: the item is skipped; the yield of line 173
SkipCase(st, case_obj, tote_config, progress) ==
    LET log == Append(st.unplaceable_cases_log,
                      [ sku |-> case_obj.sku,
                        reason |-> SkipReason(case_obj, tote_config) ])
    IN  [ st     |-> [st EXCEPT !.unplaceable_cases_log = log],
          calls  |-> 0,
          yield  |-> Snapshot(progress,
                        Append(st.all_processed_totes_full_data, st.current_tote),
                        st.visualization_output_list, log, FALSE) ]

\* lines 261-268: the yield at the end of a loop iteration
EndOfIteration(st, calls, progress) ==
    LET totes == Append(st.all_processed_totes_full_data, st.current_tote)
    IN  [ st    |-> st,
          calls |-> calls,
          yield |-> Snapshot(progress, totes, VisRecordsOf(totes),
                             st.unplaceable_cases_log, FALSE) ]

\* lines 186-189: Commit to the open tote
PlaceInOpenTote(st, case_obj, placement_details) ==
    [ st EXCEPT !.current_tote =
        add_case_to_tote_and_update_state(case_obj, st.current_tote,
                                          placement_details) ]

\* a rollover that opens the next tote and never retries the item
rollover_without_retry(st, case_obj, tote_config) ==
    [ st EXCEPT
        !.all_processed_totes_full_data =
            finalize_and_store_tote(st.current_tote, st.all_processed_totes_full_data),
        !.next_tote_id = st.next_tote_id + 1,
        !.current_tote = create_new_empty_tote(st.next_tote_id + 1, tote_config) ]

\* a rollover that gives the new tote the id of the tote it replaces
rollover_keeping_tote_id(st, case_obj, tote_config) ==
    LET totes == Append(st.all_processed_totes_full_data, finalized_tote(st.current_tote))
        fresh == create_new_empty_tote(st.next_tote_id, tote_config)
        placement_details_new_tote == attempt_place_case(case_obj, fresh)
    IN  [ st EXCEPT
            !.all_processed_totes_full_data = totes,
            !.current_tote = add_case_to_tote_and_update_state(
                                 case_obj, fresh, placement_details_new_tote) ]

\* a rollover that, when the item fits the new tote, stores that tote as well
\* and opens one more for the item
rollover_opening_two_totes(st, case_obj, tote_config) ==
    LET first == create_new_empty_tote(st.next_tote_id + 1, tote_config)
        second == create_new_empty_tote(st.next_tote_id + 2, tote_config)
        totes == Append(Append(st.all_processed_totes_full_data,
                               finalized_tote(st.current_tote)),
                        finalized_tote(first))
    IN  [ st EXCEPT
            !.all_processed_totes_full_data = totes,
            !.next_tote_id = st.next_tote_id + 2,
            !.current_tote = add_case_to_tote_and_update_state(
                                 case_obj, second, attempt_place_case(case_obj, second)) ]

\* lines 190-213: finalize the open tote, open the next one, retry once
Rollover(st, case_obj, tote_config) ==
    LET totes == finalize_and_store_tote(st.current_tote, st.all_processed_totes_full_data)
        id    == st.next_tote_id + 1
        new_tote == create_new_empty_tote(id, tote_config)
        placement_details_new_tote == attempt_place_case(case_obj, new_tote)
        fresh == tote_after_search(case_obj, new_tote)
    IN  IF Admitted(placement_details_new_tote, case_obj, fresh)
        THEN [ st EXCEPT
                 !.all_processed_totes_full_data = totes,
                 !.next_tote_id = id,
                 !.current_tote = add_case_to_tote_and_update_state(
                                      case_after_search(case_obj, new_tote), fresh,
                                      placement_details_new_tote) ]
        ELSE [ st EXCEPT
                 !.all_processed_totes_full_data = totes,
                 !.next_tote_id = id,
                 !.current_tote = fresh,
                 !.unplaceable_cases_log = Append(st.unplaceable_cases_log,
                     [ sku |-> case_obj.sku,
                       reason |-> IF ~placement_details_new_tote.can_fit
                                  THEN "Could not fit new empty tote (no spatial fit)"
                                  ELSE "Could not fit new empty tote (insufficient volume (unexpected))" ]) ]

\* lines 146-268: one iteration of the loop, up to its yield
LoopIteration(st, case_obj, tote_config, progress) ==
    IF FundamentallyTooLarge(case_obj, tote_config)
    THEN SkipCase(st, case_obj, tote_config, progress)
    ELSE LET placement_details == attempt_place_case(case_obj, st.current_tote)
             searched == [st EXCEPT !.current_tote =
                              tote_after_search(case_obj, st.current_tote)]
             current_case == case_after_search(case_obj, st.current_tote)
         IN  IF Admitted(placement_details, current_case, searched.current_tote)
             THEN EndOfIteration(PlaceInOpenTote(searched, current_case,
                                                 placement_details),
                                 1, progress)
             ELSE EndOfIteration(Rollover(searched, current_case, tote_config),
                                 2, progress)

\* an end of run that stores the open tote only when it holds an item
final_step_only_nonempty(st) ==
    LET finalize == Len(st.current_tote.items) > 0
        totes == IF finalize
                 THEN Append(st.all_processed_totes_full_data,
                             finalized_tote(st.current_tote))
                 ELSE st.all_processed_totes_full_data
    IN  [ st    |-> [st EXCEPT !.all_processed_totes_full_data = totes],
          yield |-> Snapshot(<<1, 1>>, totes, VisRecordsOf(totes),
                             st.unplaceable_cases_log, TRUE) ]

\* lines 272-314: after the loop
FinalStep(st) ==
    LET finalize == \/ Len(st.current_tote.items) > 0
                    \/ (st.current_tote.id = 1 /\ st.all_processed_totes_full_data = <<>>)
        totes == IF finalize
                 THEN finalize_and_store_tote(st.current_tote, st.all_processed_totes_full_data)
                 ELSE st.all_processed_totes_full_data
    IN  [ st    |-> [st EXCEPT
                       !.all_processed_totes_full_data = totes,
                       !.current_tote = IF finalize THEN finalized_tote(st.current_tote)
                                        ELSE st.current_tote],
          yield |-> Snapshot(<<1, 1>>, totes, VisRecordsOf(totes),
                             st.unplaceable_cases_log, TRUE) ]

(***************************************************************************)
(* The state machine: one action per resumption of the generator.          *)
(***************************************************************************)
CurrentLocals ==
    Locals(current_tote, all_processed_totes_full_data, next_tote_id,
           visualization_output_list, unplaceable_cases_log)

SetLocals(st) ==
    /\ current_tote' = st.current_tote
    /\ all_processed_totes_full_data' = st.all_processed_totes_full_data
    /\ next_tote_id' = st.next_tote_id
    /\ visualization_output_list' = st.visualization_output_list
    /\ unplaceable_cases_log' = st.unplaceable_cases_log

\* app.py, lines 75-99: the session state of a page that has run nothing
InitialSessionState ==
    [ simulation_ran        |-> FALSE,
      simulation_running    |-> FALSE,
      simulation_paused     |-> FALSE,
      simulation_generator  |-> "None",
      intermediate_results  |-> None,
      simulation_results    |-> [ visualization_output_list |-> <<>>,
                                  full_totes_summary_data   |-> <<>>,
                                  unplaceable_items_log     |-> <<>> ] ]

\* lines 126-134: the generator is created with a list and a configuration
Init ==
    /\ current_tote_config \in
         { dynamic_tote_config(i[1], i[2], i[3], i[4]) : i \in SidebarInputs }
    /\ total_cases \in 0..MaxItems
    /\ case_data_list = <<>>
    /\ processed_cases = 0
    /\ next_tote_id = 1
    /\ current_tote = create_new_empty_tote(1, current_tote_config)
    /\ all_processed_totes_full_data = <<>>
    /\ visualization_output_list = <<>>
    /\ unplaceable_cases_log = <<>>
    /\ search_calls = 0
    /\ yielded = Snapshot(<<0, 1>>, <<>>, <<>>, <<>>, FALSE)
    /\ pc = "start"
    /\ session_state = InitialSessionState

\* lines 136-144: the first yield
Start ==
    /\ pc = "start"
    /\ pc' = "loop"
    /\ yielded' = Snapshot(<<0, 1>>, <<>>, <<>>, <<>>, FALSE)
    /\ UNCHANGED <<current_tote_config, total_cases, case_data_list, processed_cases,
                   next_tote_id, current_tote, all_processed_totes_full_data,
                   visualization_output_list, unplaceable_cases_log, search_calls>>

\* lines 146-268: the next record of the list is processed, up to the yield
ProcessCase(case_raw_data) ==
    /\ pc = "loop"
    /\ processed_cases < total_cases
    /\ ~DividesByZero(get_case_properties(processed_cases + 1, case_raw_data[1],
                                          case_raw_data[2], case_raw_data[3]),
                      current_tote_config, current_tote)
    /\ \E r \in { LoopIteration(CurrentLocals,
                                 get_case_properties(processed_cases + 1, case_raw_data[1],
                                                     case_raw_data[2], case_raw_data[3]),
                                 current_tote_config,
                                 Progress(processed_cases + 1, total_cases)) } :
           /\ SetLocals(r.st)
           /\ search_calls' = r.calls
           /\ yielded' = r.yield
    /\ case_data_list' = Append(case_data_list, case_raw_data)
    /\ processed_cases' = processed_cases + 1
    /\ UNCHANGED <<current_tote_config, total_cases, pc>>

\* lines 272-314: the list is exhausted; final finalize and the final yield
Finish ==
    /\ pc = "loop"
    /\ processed_cases = total_cases
    /\ \E r \in { FinalStep(CurrentLocals) } :
           /\ SetLocals(r.st)
           /\ yielded' = r.yield
    /\ pc' = "done"
    /\ UNCHANGED <<current_tote_config, total_cases, case_data_list, processed_cases,
                   search_calls>>

\* the generator resumed by a caller that keeps no session state
Next ==
    \/ Start /\ UNCHANGED session_state
    \/ (\E case_raw_data \in ItemRecords : ProcessCase(case_raw_data))
           /\ UNCHANGED session_state
    \/ Finish /\ UNCHANGED session_state

Spec == Init /\ [][Next]_vars

\* app.py, lines 827-830: next(simulation_generator) takes the generator to
\* its next yield: out of the first yield, past one more record, or to the
\* final yield
Resume ==
    /\ pc \in {"start", "loop"}
    /\ pc' \in {"loop", "done"}
    /\ processed_cases' \in {processed_cases, processed_cases + 1}
    /\ <<pc', processed_cases'>> # <<pc, processed_cases>>

\* while the simulation runs and is not paused every rerun of the page
\* resumes the generator, until it is exhausted
FairSpec == Spec /\ WF_<<pc, processed_cases>>(Resume)

(***************************************************************************)
(* The generator called with a configuration of the caller's making.       *)
(***************************************************************************)
InitRaw ==
    /\ current_tote_config \in RawConfigs
    /\ total_cases \in 0..MaxItems
    /\ case_data_list = <<>>
    /\ processed_cases = 0
    /\ next_tote_id = 1
    /\ current_tote = create_new_empty_tote(1, current_tote_config)
    /\ all_processed_totes_full_data = <<>>
    /\ visualization_output_list = <<>>
    /\ unplaceable_cases_log = <<>>
    /\ search_calls = 0
    /\ yielded = Snapshot(<<0, 1>>, <<>>, <<>>, <<>>, FALSE)
    /\ pc = "start"
    /\ session_state = InitialSessionState

\* lines 146-183, 21: the record passes the pre-check and the first Search
\* divides by a zero resolution; ZeroDivisionError leaves the generator
SearchRaises(case_raw_data) ==
    /\ pc = "loop"
    /\ processed_cases < total_cases
    /\ DividesByZero(get_case_properties(processed_cases + 1, case_raw_data[1],
                                         case_raw_data[2], case_raw_data[3]),
                     current_tote_config, current_tote)
    /\ pc' = "raised"
    /\ case_data_list' = Append(case_data_list, case_raw_data)
    /\ processed_cases' = processed_cases + 1
    /\ search_calls' = 1
    /\ UNCHANGED <<current_tote_config, total_cases, next_tote_id, current_tote,
                   all_processed_totes_full_data, visualization_output_list,
                   unplaceable_cases_log, yielded>>

NextRaw ==
    \/ Start /\ UNCHANGED session_state
    \/ (\E case_raw_data \in ItemRecords : ProcessCase(case_raw_data))
           /\ UNCHANGED session_state
    \/ (\E case_raw_data \in ItemRecords : SearchRaises(case_raw_data))
           /\ UNCHANGED session_state
    \/ Finish /\ UNCHANGED session_state

SpecRaw == InitRaw /\ [][NextRaw]_vars

(***************************************************************************)
(* The generator on a grid coarser than the tote: the 250 x 200 x 300 tote *)
(* as app.py builds it at resolution 100, whose 3 x 2 cells span 300 x 200 *)
(* mm, with records that use the whole grid.                               *)
(***************************************************************************)
\* raw records <<length, width, height>>: a layer over the whole grid, an
\* item taller than half the tote in every orientation, a bar and a cube
CoarseGridRecords ==
    { <<300, 200, 150>>,
      <<200, 160, 160>>,
      <<300, 100, 100>>,
      <<100, 100, 100>> }

InitCoarseGrid ==
    /\ current_tote_config = dynamic_tote_config(250, 200, 300, 100)
    /\ total_cases \in 0..MaxItems
    /\ case_data_list = <<>>
    /\ processed_cases = 0
    /\ next_tote_id = 1
    /\ current_tote = create_new_empty_tote(1, current_tote_config)
    /\ all_processed_totes_full_data = <<>>
    /\ visualization_output_list = <<>>
    /\ unplaceable_cases_log = <<>>
    /\ search_calls = 0
    /\ yielded = Snapshot(<<0, 1>>, <<>>, <<>>, <<>>, FALSE)
    /\ pc = "start"
    /\ session_state = InitialSessionState

NextCoarseGrid ==
    \/ Start /\ UNCHANGED session_state
    \/ (\E case_raw_data \in CoarseGridRecords : ProcessCase(case_raw_data))
           /\ UNCHANGED session_state
    \/ Finish /\ UNCHANGED session_state

SpecCoarseGrid == InitCoarseGrid /\ [][NextCoarseGrid]_vars

(***************************************************************************)
(* app.py: the run/pause machine of the page.  One action per script run   *)
(* (a rerun of the page); st.rerun() ends the script run that calls it.    *)
(* The generator is the one above, created by the Run click on the         *)
(* sidebar's configuration and resumed by next().  A button delivers a     *)
(* click only while it is enabled.                                         *)
(***************************************************************************)
\* sidebar inputs <<length, width, height, resolution>> of the page
AppSidebarInputs == { <<250, 200, 300, 100>> }

\* lines 706, 866
EmptyResults ==
    [ visualization_output_list |-> <<>>,
      full_totes_summary_data   |-> <<>>,
      unplaceable_items_log     |-> <<>> ]

\* lines 586-589: the on_change callback of the data source radio
reset_sim_ran_on_source_change(ss) ==
    [ ss EXCEPT !.simulation_ran = FALSE,
                !.simulation_results = [ visualization_output_list |-> <<>>,
                                         full_totes_summary_data   |-> <<>> ] ]

\* a page that resumes the generator whether or not the run is paused
consume_while_paused(ss) ==
    ss.simulation_running /\ ss.simulation_generator # "None"

\* lines 827-828
ShouldConsume(ss) ==
    /\ ss.simulation_running
    /\ ~ss.simulation_paused
    /\ ss.simulation_generator # "None"

\* lines 832-848: the session state once next() has returned yielded_data
StoreYield(ss, yielded_data) ==
    IF yielded_data.is_final
    THEN [ ss EXCEPT
             !.intermediate_results = <<yielded_data>>,
             !.simulation_running   = FALSE,
             !.simulation_paused    = FALSE,
             !.simulation_ran       = TRUE,
             !.simulation_results   =
                 [ visualization_output_list |-> yielded_data.intermediate_vis_data,
                   full_totes_summary_data   |-> yielded_data.intermediate_totes_data,
                   unplaceable_items_log     |-> yielded_data.unplaceable_log ],
             !.simulation_generator = "None" ]
    ELSE [ ss EXCEPT !.intermediate_results = <<yielded_data>> ]

\* line 830: next(simulation_generator) runs the generator to its next yield
NextYield ==
    \/ Start
    \/ \E case_raw_data \in CoarseGridRecords : ProcessCase(case_raw_data)
    \/ Finish

\* lines 822-874: a script run from the progress area on, no button clicked,
\* with the session state ss the lines above it left
ConsumeGenerator(ss) ==
    IF ShouldConsume(ss)
    THEN NextYield /\ session_state' = StoreYield(ss, yielded')
    ELSE UNCHANGED generator_vars /\ session_state' = ss

\* the generator variables when the page holds no generator
NoGenerator(tote_config) ==
    /\ current_tote_config' = tote_config
    /\ total_cases' = 0
    /\ case_data_list' = <<>>
    /\ processed_cases' = 0
    /\ next_tote_id' = 1
    /\ current_tote' = create_new_empty_tote(1, tote_config)
    /\ all_processed_totes_full_data' = <<>>
    /\ visualization_output_list' = <<>>
    /\ unplaceable_cases_log' = <<>>
    /\ search_calls' = 0
    /\ yielded' = Snapshot(<<0, 1>>, <<>>, <<>>, <<>>, FALSE)
    /\ pc' = "idle"

\* lines 806-809, 126-134: the generator object, not yet started
NewGenerator(tote_config, number_of_cases) ==
    /\ current_tote_config' = tote_config
    /\ total_cases' = number_of_cases
    /\ case_data_list' = <<>>
    /\ processed_cases' = 0
    /\ next_tote_id' = 1
    /\ current_tote' = create_new_empty_tote(1, tote_config)
    /\ all_processed_totes_full_data' = <<>>
    /\ visualization_output_list' = <<>>
    /\ unplaceable_cases_log' = <<>>
    /\ search_calls' = 0
    /\ yielded' = Snapshot(<<0, 1>>, <<>>, <<>>, <<>>, FALSE)
    /\ pc' = "start"

\* lines 700-813: Run Simulation is clicked.  simulation_can_proceed tells
\* whether the case source gave a usable input, number_of_cases is
\* len(current_input_cases)
RunClick(sidebar, simulation_can_proceed, number_of_cases) ==
    /\ ~session_state.simulation_running
    /\ LET reset == [ session_state EXCEPT
                        !.simulation_ran       = FALSE,
                        !.simulation_running   = TRUE,
                        !.simulation_paused    = FALSE,
                        !.simulation_generator = "None",
                        !.simulation_results   = EmptyResults,
                        !.intermediate_results = None ]
           tote_config == dynamic_tote_config(sidebar[1], sidebar[2], sidebar[3],
                                              sidebar[4])
       IN  IF simulation_can_proceed /\ number_of_cases > 0
           THEN /\ NewGenerator(tote_config, number_of_cases)
                /\ session_state' = [reset EXCEPT !.simulation_generator = "generator"]
           ELSE IF ~simulation_can_proceed
           THEN /\ NoGenerator(tote_config)
                /\ session_state' = [reset EXCEPT !.simulation_running = FALSE]
           ELSE /\ NoGenerator(tote_config)
                /\ session_state' = reset

\* lines 815-819: Pause (or Resume, the same button) is clicked
PauseClick ==
    /\ session_state.simulation_running
    /\ session_state' = [session_state EXCEPT !.simulation_paused = ~@]
    /\ UNCHANGED generator_vars

\* a script run with no click: the rerun that st.rerun() asked for
Rerun ==
    /\ ShouldConsume(session_state)
    /\ ConsumeGenerator(session_state)

\* the data source radio is changed: its callback, then a script run
SourceChange ==
    ConsumeGenerator(reset_sim_ran_on_source_change(session_state))

AppInit ==
    /\ current_tote_config \in
         { dynamic_tote_config(i[1], i[2], i[3], i[4]) : i \in AppSidebarInputs }
    /\ total_cases = 0
    /\ case_data_list = <<>>
    /\ processed_cases = 0
    /\ next_tote_id = 1
    /\ current_tote = create_new_empty_tote(1, current_tote_config)
    /\ all_processed_totes_full_data = <<>>
    /\ visualization_output_list = <<>>
    /\ unplaceable_cases_log = <<>>
    /\ search_calls = 0
    /\ yielded = Snapshot(<<0, 1>>, <<>>, <<>>, <<>>, FALSE)
    /\ pc = "idle"
    /\ session_state = InitialSessionState

AppNext ==
    \/ \E sidebar \in AppSidebarInputs, simulation_can_proceed \in BOOLEAN,
          number_of_cases \in 0..MaxItems :
            RunClick(sidebar, simulation_can_proceed, number_of_cases)
    \/ PauseClick
    \/ Rerun
    \/ SourceChange

AppSpec == AppInit /\ [][AppNext]_vars

(***************************************************************************)
(* Vocabulary of the properties.                                           *)
(***************************************************************************)
Last(seq) == seq[Len(seq)]

\* the totes a caller can see: lines 176, 265 (finalized totes plus the open
\* one) while the loop runs, line 310 (finalized totes) after the final yield
AllTotes ==
    IF pc = "done" THEN all_processed_totes_full_data
    ELSE Append(all_processed_totes_full_data, current_tote)

\* the grid cells a placed item covers (lines 59-65)
ItemCells(tote, item) ==
    FootprintCells(item.position_in_tote_grid[1], item.position_in_tote_grid[2],
                   case_grid(item.chosen_orientation_dims[1], tote),
                   case_grid(item.chosen_orientation_dims[2], tote))

\* the box of a placed item in millimetres: <<x0, y0, z0, x1, y1, z1>>
ItemBox(tote, item) ==
    LET x == item.position_in_tote_grid[1] * tote.height_map_resolution
        y == item.position_in_tote_grid[2] * tote.height_map_resolution
        z == item.placement_z_level
    IN  << x, y, z, x + item.chosen_orientation_dims[1],
           y + item.chosen_orientation_dims[2], z + item.chosen_orientation_dims[3] >>

BoxesIntersect(a, b) ==
    /\ a[1] < b[4] /\ b[1] < a[4]
    /\ a[2] < b[5] /\ b[2] < a[5]
    /\ a[3] < b[6] /\ b[3] < a[6]

(***************************************************************************)
(* C1.  Two items of one tote whose grid footprints share a cell are       *)
(* stacked: the later one's placement_z_level is at least the earlier      *)
(* one's placement_z_level plus its oriented height, so no two placed      *)
(* boxes intersect in 3D.  In particular an item B (500x500x200) whose     *)
(* footprint overlaps an A (500x500x200) placed at (0,0), z = 0, has       *)
(* base_z 200.                                                             *)
(***************************************************************************)
C1_StackedNotIntersecting ==
    \A t \in 1..Len(AllTotes) :
        LET tote == AllTotes[t]
        IN  \A i, j \in 1..Len(tote.items) :
                i < j =>
                    LET a == tote.items[i]
                        b == tote.items[j]
                        overlap == ItemCells(tote, a) \cap ItemCells(tote, b) # {}
                    IN  /\ overlap =>
                              b.placement_z_level >=
                                  a.placement_z_level + a.chosen_orientation_dims[3]
                        /\ ~BoxesIntersect(ItemBox(tote, a), ItemBox(tote, b))
                        /\ ( /\ overlap
                             /\ i = 1 /\ j = 2
                             /\ a.chosen_orientation_dims = <<500, 500, 200>>
                             /\ a.position_in_tote_grid = <<0, 0>>
                             /\ a.placement_z_level = 0
                             /\ b.original_dims = <<500, 500, 200>> )
                           => b.placement_z_level = 200

\* B (500x500x200) lies on A (500x500x200): same footprint, base_z 200
C1_Witness ==
    /\ Len(current_tote.items) >= 2
    /\ current_tote.items[1].chosen_orientation_dims = <<500, 500, 200>>
    /\ current_tote.items[1].position_in_tote_grid = <<0, 0>>
    /\ current_tote.items[2].original_dims = <<500, 500, 200>>
    /\ current_tote.items[2].position_in_tote_grid = <<0, 0>>
    /\ current_tote.items[2].placement_z_level = 200

(***************************************************************************)
(* C2.  At every Commit of the driver (to the open tote, or to the fresh   *)
(* tote after a rollover) the item's recorded placement_z_level equals     *)
(* the maximum of the height map of that tote, as it was just before the   *)
(* commit, over the cells of the item's footprint.                         *)
(***************************************************************************)
\* the step commits an item to the tote that was open before the step
CommittedToOpenTote ==
    /\ next_tote_id' = next_tote_id
    /\ Len(current_tote'.items) = Len(current_tote.items) + 1

\* the step rolled over and committed the item to the fresh tote
CommittedToFreshTote ==
    /\ next_tote_id' = next_tote_id + 1
    /\ Len(current_tote'.items) = 1

\* the highest cell of a height map under a footprint
SurfaceUnder(height_map, cells) ==
    SetMax({ height_map[c[1]][c[2]] : c \in cells })

C2_BaseZIsSurfaceAtCommit ==
    [][ /\ CommittedToOpenTote =>
            LET item == Last(current_tote'.items)
            IN  item.placement_z_level =
                    SurfaceUnder(current_tote.height_map, ItemCells(current_tote, item))
        /\ CommittedToFreshTote =>
            LET item == Last(current_tote'.items)
                fresh == create_new_empty_tote(next_tote_id', current_tote_config)
            IN  item.placement_z_level =
                    SurfaceUnder(fresh.height_map, ItemCells(fresh, item))
      ]_vars

\* a commit on top of a surface that is not flat under the footprint: the
\* third item of the open tote rests on the higher of the cells it covers
C2_Witness ==
    /\ Len(current_tote.items) = 3
    /\ search_calls = 1
    /\ current_tote.items[3].placement_z_level > 0
    /\ \E c \in ItemCells(current_tote, current_tote.items[3]) :
          \A i \in 1..2 : c \notin ItemCells(current_tote, current_tote.items[i])

(***************************************************************************)
(* C3.  Every placed item lies within the physical tote, also when the     *)
(* tote dimensions are not a multiple of the resolution:                   *)
(* grid_x * resolution + oriented length <= max_length,                    *)
(* grid_y * resolution + oriented width <= max_width,                      *)
(* placement_z_level + oriented height <= max_height.                      *)
(***************************************************************************)
C3_WithinPhysicalTote ==
    \A t \in 1..Len(AllTotes) :
        LET tote == AllTotes[t]
        IN  \A i \in 1..Len(tote.items) :
                LET box == ItemBox(tote, tote.items[i])
                IN  /\ box[4] <= tote.max_length
                    /\ box[5] <= tote.max_width
                    /\ box[6] <= tote.max_height

(***************************************************************************)
(* C4.  After any prefix of k items each of them is accounted for exactly  *)
(* once: it is in the items list of exactly one tote (finalized or open),  *)
(* once, or it has exactly one entry in the unplaceable log; placed count  *)
(* plus log count is k, and no item is both placed and logged.             *)
(* Items are told apart by their sku, which the model sets to the item's   *)
(* position in the stream.                                                 *)
(***************************************************************************)
RECURSIVE CountItems(_)
CountItems(totes) ==
    IF totes = <<>> THEN 0 ELSE Len(totes[1].items) + CountItems(Tail(totes))

\* the places <<tote index, item index>> where sku is stored in a list of totes
PlacesOf(sku, totes) ==
    { p \in { <<t, i>> : t \in 1..Len(totes), i \in 1..processed_cases } :
        /\ p[2] <= Len(totes[p[1]].items)
        /\ totes[p[1]].items[p[2]].sku = sku }

LogEntriesOf(sku, log) == { e \in 1..Len(log) : log[e].sku = sku }

C4_EveryItemAccountedOnce ==
    /\ \A sku \in 1..processed_cases :
          Cardinality(PlacesOf(sku, AllTotes))
              + Cardinality(LogEntriesOf(sku, unplaceable_cases_log)) = 1
    /\ CountItems(AllTotes) + Len(unplaceable_cases_log) = processed_cases
    /\ Len(case_data_list) = processed_cases

\* three items processed: one in a finalized tote, one in the open tote, one logged
C4_Witness ==
    /\ pc = "loop"
    /\ processed_cases = 3
    /\ Len(all_processed_totes_full_data) = 1
    /\ Len(all_processed_totes_full_data[1].items) = 1
    /\ Len(current_tote.items) = 1
    /\ Len(unplaceable_cases_log) = 1

(***************************************************************************)
(* C5.  For every tote, open or finalized, at every yield of the driver,   *)
(* remaining_volume = max_volume - (sum of the volumes of its items).      *)
(***************************************************************************)
VolumeAccounted(tote) ==
    tote.remaining_volume = tote.max_volume - SumVolumes(tote.items)

C5_VolumeAccounting ==
    /\ \A t \in 1..Len(AllTotes) : VolumeAccounted(AllTotes[t])
    /\ \A t \in 1..Len(yielded.intermediate_totes_data) :
          VolumeAccounted(yielded.intermediate_totes_data[t])

\* a yield that shows a finalized tote and an open tote, both holding items
C5_Witness ==
    /\ Len(yielded.intermediate_totes_data) = 2
    /\ Len(yielded.intermediate_totes_data[1].items) = 2
    /\ Len(yielded.intermediate_totes_data[2].items) = 1
    /\ yielded.intermediate_totes_data[2].remaining_volume
           < yielded.intermediate_totes_data[2].max_volume

(***************************************************************************)
(* C6.  For every tote and every cell of its height map, the value never   *)
(* decreases across the commits applied to the tote: it starts at 0 and    *)
(* every commit leaves it unchanged or raises it.                          *)
(***************************************************************************)
C6_MonotonicHeight ==
    [][ /\ current_tote'.id = current_tote.id =>
            \A x \in 0..(current_tote.grid_dim_x - 1) :
                \A y \in 0..(current_tote.grid_dim_y - 1) :
                    current_tote'.height_map[x][y] >= current_tote.height_map[x][y]
        /\ current_tote'.id # current_tote.id =>
            \A x \in 0..(current_tote'.grid_dim_x - 1) :
                \A y \in 0..(current_tote'.grid_dim_y - 1) :
                    current_tote'.height_map[x][y] >= 0
        /\ \A t \in 1..Len(all_processed_totes_full_data) :
              all_processed_totes_full_data'[t].height_map
                  = all_processed_totes_full_data[t].height_map
        /\ Len(all_processed_totes_full_data') > Len(all_processed_totes_full_data) =>
              Last(all_processed_totes_full_data').height_map = current_tote.height_map
      ]_vars

\* a cell raised by two commits: the second item stands on the first
C6_Witness ==
    /\ Len(current_tote.items) = 2
    /\ current_tote.items[2].placement_z_level > 0
    /\ \E x \in 0..(current_tote.grid_dim_x - 1), y \in 0..(current_tote.grid_dim_y - 1) :
          current_tote.height_map[x][y] =
              current_tote.items[1].chosen_orientation_dims[3]
                  + current_tote.items[2].chosen_orientation_dims[3]

(***************************************************************************)
(* C7.  An item none of whose orientations fits the tote's maximum         *)
(* dimensions is logged as unplaceable and no Search is attempted for it.  *)
(* As claimed: the reason is always the 'dimensions' reason, whatever the  *)
(* item's volume.  As the code has it: the reason is the 'dimensions'      *)
(* reason when the item's volume is at most max_volume, and the 'volume'   *)
(* reason when it exceeds max_volume.                                      *)
(***************************************************************************)
\* the stored case of the i-th record read
CaseOf(i) ==
    get_case_properties(i, case_data_list[i][1], case_data_list[i][2], case_data_list[i][3])

\* every orientation has a dimension above the corresponding tote maximum
NoOrientationFits(i) ==
    \A k \in 1..6 :
        LET o == CaseOf(i).orientations[k]
        IN  \/ o[1] > current_tote_config.TOTE_MAX_LENGTH
            \/ o[2] > current_tote_config.TOTE_MAX_WIDTH
            \/ o[3] > current_tote_config.TOTE_MAX_HEIGHT

LoggedWith(i, reason) ==
    /\ \E e \in 1..Len(unplaceable_cases_log) :
          unplaceable_cases_log[e] = [sku |-> i, reason |-> reason]
    /\ PlacesOf(i, AllTotes) = {}
    /\ i = processed_cases /\ pc = "loop" => search_calls = 0

C7_TooLargeByDimensions ==
    \A i \in 1..processed_cases :
        NoOrientationFits(i) => LoggedWith(i, "Fundamentally too large (dimensions)")

C7_TooLargeReasonByVolumeFirst ==
    \A i \in 1..processed_cases :
        NoOrientationFits(i) =>
            IF CaseOf(i).volume > current_tote_config.TOTE_MAX_VOLUME
            THEN LoggedWith(i, "Fundamentally too large (volume)")
            ELSE LoggedWith(i, "Fundamentally too large (dimensions)")

\* both cases happened: an item too long for the tote with a volume below
\* max_volume, and one too large in volume as well, the last one just skipped
C7_Witness ==
    /\ pc = "loop"
    /\ processed_cases = 2
    /\ \A i \in 1..2 : NoOrientationFits(i)
    /\ CaseOf(1).volume <= current_tote_config.TOTE_MAX_VOLUME
    /\ CaseOf(2).volume > current_tote_config.TOTE_MAX_VOLUME
    /\ search_calls = 0
    /\ Len(unplaceable_cases_log) = 2

(***************************************************************************)
(* C8.  When the pre-check rejects an item (volume > max_volume, or no     *)
(* orientation within max_length/width/height) the step leaves the tote    *)
(* state untouched: the open tote, the finalized totes and the next tote   *)
(* id are unchanged, and the unplaceable log grows by exactly one entry.   *)
(***************************************************************************)
\* the step reads a record that the pre-check rejects
ReadsRejectedRecord ==
    /\ pc = "loop"
    /\ processed_cases' = processed_cases + 1
    /\ LET raw == Last(case_data_list')
           c == get_case_properties(processed_cases', raw[1], raw[2], raw[3])
       IN  \/ c.volume > current_tote_config.TOTE_MAX_VOLUME
           \/ \A k \in 1..6 :
                 \/ c.orientations[k][1] > current_tote_config.TOTE_MAX_LENGTH
                 \/ c.orientations[k][2] > current_tote_config.TOTE_MAX_WIDTH
                 \/ c.orientations[k][3] > current_tote_config.TOTE_MAX_HEIGHT

C8_RejectLeavesTotesUntouched ==
    [][ ReadsRejectedRecord =>
            /\ current_tote' = current_tote
            /\ all_processed_totes_full_data' = all_processed_totes_full_data
            /\ next_tote_id' = next_tote_id
            /\ Len(unplaceable_cases_log') = Len(unplaceable_cases_log) + 1
            /\ SubSeq(unplaceable_cases_log', 1, Len(unplaceable_cases_log))
                   = unplaceable_cases_log
            /\ Last(unplaceable_cases_log').sku = processed_cases'
      ]_vars

\* an item was rejected while a finalized tote and a non-empty open tote exist
C8_Witness ==
    /\ pc = "loop"
    /\ processed_cases = 3
    /\ search_calls = 0
    /\ Len(all_processed_totes_full_data) = 1
    /\ Len(current_tote.items) = 1
    /\ Last(unplaceable_cases_log).sku = 3

(***************************************************************************)
(* C9.  At every yield of the driver, the yield for a skipped item         *)
(* included, the snapshot holds every item committed so far: both the      *)
(* tote data (finalized totes plus the open tote) and the list of          *)
(* placement records include all items placed before.                      *)
(***************************************************************************)
C9_SnapshotHoldsEveryCommit ==
    pc # "start" =>
        \A sku \in 1..processed_cases :
            PlacesOf(sku, AllTotes) # {} =>
                /\ PlacesOf(sku, yielded.intermediate_totes_data) # {}
                /\ \E r \in 1..Len(yielded.intermediate_vis_data) :
                      yielded.intermediate_vis_data[r].case_sku = sku

(***************************************************************************)
(* C10.  For an item that passed the pre-checks the driver finalizes the   *)
(* open tote and opens the tote with the next id exactly when Search finds *)
(* no admissible placement in the open tote or the item's volume exceeds   *)
(* remaining_volume; otherwise the item is committed to the open tote.     *)
(* The rolled-over item is placed in the fresh tote at grid (0,0), z = 0,  *)
(* and the finalized tote's utilization is 100 * (sum of its item          *)
(* volumes) / max_volume.  Instance: tote 1000x1000x1000, resolution 100,  *)
(* two items 600x600x600: item 1 in tote 1 at (0,0,0), tote 1 finalized at *)
(* 21.6 %, item 2 in tote 2 at (0,0,0).                                    *)
(***************************************************************************)
\* the step reads a record that passes the pre-check
ReadsAcceptedRecord ==
    /\ pc = "loop"
    /\ processed_cases' = processed_cases + 1
    /\ ~ReadsRejectedRecord

RolloverStepOutcome(c) ==
    /\ next_tote_id' = next_tote_id + 1
    /\ all_processed_totes_full_data' =
           Append(all_processed_totes_full_data, Last(all_processed_totes_full_data'))
    /\ LET done == Last(all_processed_totes_full_data')
       IN  /\ done.id = current_tote.id
           /\ done.items = current_tote.items
           /\ done.height_map = current_tote.height_map
           /\ done.utilization_percent =
                  Percent(SumVolumes(current_tote.items), current_tote.max_volume)
    /\ current_tote'.id = next_tote_id'
    /\ Len(current_tote'.items) = 1
    /\ current_tote'.items[1].sku = c.sku
    /\ current_tote'.items[1].position_in_tote_grid = <<0, 0>>
    /\ current_tote'.items[1].placement_z_level = 0
    /\ unplaceable_cases_log' = unplaceable_cases_log

CommitStepOutcome(c) ==
    /\ next_tote_id' = next_tote_id
    /\ all_processed_totes_full_data' = all_processed_totes_full_data
    /\ current_tote'.id = current_tote.id
    /\ current_tote'.items =
           Append(current_tote.items, Last(current_tote'.items))
    /\ Last(current_tote'.items).sku = c.sku
    /\ unplaceable_cases_log' = unplaceable_cases_log

ScenarioB ==
    /\ current_tote_config = dynamic_tote_config(1000, 1000, 1000, 100)
    /\ processed_cases >= 2
    /\ case_data_list[1] = <<600, 600, 600>>
    /\ case_data_list[2] = <<600, 600, 600>>

ScenarioBOutcome ==
    /\ Len(AllTotes) >= 2
    /\ AllTotes[1].id = 1
    /\ Len(AllTotes[1].items) = 1
    /\ AllTotes[1].items[1].sku = 1
    /\ AllTotes[1].items[1].position_in_tote_grid = <<0, 0>>
    /\ AllTotes[1].items[1].placement_z_level = 0
    /\ AllTotes[1].utilization_percent = <<108, 5>>
    /\ AllTotes[2].id = 2
    /\ AllTotes[2].items[1].sku = 2
    /\ AllTotes[2].items[1].position_in_tote_grid = <<0, 0>>
    /\ AllTotes[2].items[1].placement_z_level = 0

C10_RolloverExactlyWhenNoFit ==
    /\ [][ ReadsAcceptedRecord =>
             LET raw == Last(case_data_list')
                 c == get_case_properties(processed_cases', raw[1], raw[2], raw[3])
                 fits == /\ attempt_place_case(c, current_tote).can_fit
                         /\ c.volume <= current_tote.remaining_volume
             IN  IF fits THEN CommitStepOutcome(c) ELSE RolloverStepOutcome(c)
         ]_vars
    /\ [](ScenarioB => ScenarioBOutcome)

\* scenario B just after its second item
C10_Witness ==
    /\ ScenarioB
    /\ processed_cases = 2
    /\ search_calls = 2
    /\ Len(all_processed_totes_full_data) = 1
    /\ current_tote.id = 2
    /\ Len(current_tote.items) = 1

(***************************************************************************)
(* C11.  Once a tote is finalized and appended to the result list its      *)
(* record never changes: every step keeps the stored records as they are   *)
(* (items, height_map, remaining_volume, utilization_percent and all other *)
(* fields), a step that finalizes a tote appends exactly one record that   *)
(* holds the open tote's items, height map and remaining volume, and every *)
(* checkpoint and the final output show the stored records unchanged.      *)
(***************************************************************************)
\* the totes of a list that the stored records fill, position by position
ShowsStoredRecords(totes, stored) ==
    /\ Len(totes) >= Len(stored)
    /\ \A t \in 1..Len(stored) : totes[t] = stored[t]

C11_FinalizedToteFrozen ==
    [][ /\ Len(all_processed_totes_full_data') >= Len(all_processed_totes_full_data)
        /\ \A t \in 1..Len(all_processed_totes_full_data) :
              all_processed_totes_full_data'[t] = all_processed_totes_full_data[t]
        /\ Len(all_processed_totes_full_data') > Len(all_processed_totes_full_data) =>
              /\ Len(all_processed_totes_full_data')
                     = Len(all_processed_totes_full_data) + 1
              /\ Last(all_processed_totes_full_data').id = current_tote.id
              /\ Last(all_processed_totes_full_data').items = current_tote.items
              /\ Last(all_processed_totes_full_data').height_map = current_tote.height_map
              /\ Last(all_processed_totes_full_data').remaining_volume
                     = current_tote.remaining_volume
        /\ pc' # "start" /\ yielded' # yielded =>
              ShowsStoredRecords(yielded'.intermediate_totes_data,
                                 all_processed_totes_full_data')
      ]_vars

\* a commit to tote 2 after tote 1 was finalized with an item in it
C11_Witness ==
    /\ pc = "loop"
    /\ processed_cases = 3
    /\ search_calls = 1
    /\ Len(all_processed_totes_full_data) = 1
    /\ Len(all_processed_totes_full_data[1].items) = 1
    /\ Len(current_tote.items) = 2
    /\ ShowsStoredRecords(yielded.intermediate_totes_data, all_processed_totes_full_data)

(***************************************************************************)
(* C12.  Every completed run returns at least one tote record, for every   *)
(* input, the empty stream and a stream with no placeable item included.   *)
(* The step after the stream ends stores the open tote exactly when it     *)
(* holds at least one item, or it is tote 1 and no tote is stored yet; an  *)
(* open tote that is empty and has an id above 1 is not stored.  The final *)
(* output is the list of stored totes.                                     *)
(***************************************************************************)
\* the step that follows the last item
EndOfStreamStep == pc = "loop" /\ pc' = "done"

C12_AtLeastOneToteReturned ==
    /\ [](pc = "done" =>
              /\ yielded.is_final
              /\ yielded.intermediate_totes_data = all_processed_totes_full_data
              /\ Len(yielded.intermediate_totes_data) >= 1)
    /\ [][ EndOfStreamStep =>
             IF \/ Len(current_tote.items) > 0
                \/ (current_tote.id = 1 /\ Len(all_processed_totes_full_data) = 0)
             THEN /\ Len(all_processed_totes_full_data')
                         = Len(all_processed_totes_full_data) + 1
                  /\ Last(all_processed_totes_full_data').id = current_tote.id
                  /\ Last(all_processed_totes_full_data').items = current_tote.items
             ELSE /\ all_processed_totes_full_data' = all_processed_totes_full_data
                  /\ current_tote.id > 1
                  /\ \A t \in 1..Len(all_processed_totes_full_data') :
                        all_processed_totes_full_data'[t].id # current_tote.id
         ]_vars

\* a run ended with an open tote that is empty and has an id above 1: it is
\* not among the totes returned, and the run still returns tote 1
C12_Witness ==
    /\ pc = "done"
    /\ current_tote.id > 1
    /\ Len(current_tote.items) = 0
    /\ Len(yielded.intermediate_totes_data) >= 1
    /\ \A t \in 1..Len(yielded.intermediate_totes_data) :
          yielded.intermediate_totes_data[t].id < current_tote.id

(***************************************************************************)
(* C13.  Exactly one tote is open during the item loop and tote ids are    *)
(* sequential: in every reachable state the stored (finalized) totes have  *)
(* the ids 1, 2, ..., k in that order, and while the loop runs the open    *)
(* tote has id k + 1, which is also the value of next_tote_id.  After the  *)
(* final step no tote is open: the last tote is either stored as tote k or *)
(* dropped.                                                                *)
(***************************************************************************)
C13_SequentialToteIds ==
    /\ \A t \in 1..Len(all_processed_totes_full_data) :
          all_processed_totes_full_data[t].id = t
    /\ pc \in {"start", "loop"} =>
          /\ current_tote.id = Len(all_processed_totes_full_data) + 1
          /\ next_tote_id = current_tote.id
          /\ pc = "loop" /\ processed_cases > 0 =>
                /\ Len(yielded.intermediate_totes_data)
                       = Len(all_processed_totes_full_data) + 1
                /\ \A t \in 1..Len(yielded.intermediate_totes_data) :
                      yielded.intermediate_totes_data[t].id = t
    /\ pc = "done" =>
          /\ current_tote.id \in { Len(all_processed_totes_full_data),
                                   Len(all_processed_totes_full_data) + 1 }
          /\ \A t \in 1..Len(yielded.intermediate_totes_data) :
                yielded.intermediate_totes_data[t].id = t

\* two rollovers: totes 1 and 2 are stored and tote 3 is open
C13_Witness ==
    /\ pc = "loop"
    /\ Len(all_processed_totes_full_data) = 2
    /\ current_tote.id = 3
    /\ Len(current_tote.items) = 1

(***************************************************************************)
(* C14.  Given a tote configuration with a non-positive or inconsistent    *)
(* value (resolution <= 0, a tote dimension <= 0, a grid dimension of 0,   *)
(* or max_volume different from length * width * height) the engine        *)
(* refuses to run: it processes no item, never builds a tote with a        *)
(* zero-sized grid, never divides by zero, produces no placement and does  *)
(* not run to its final output.                                            *)
(***************************************************************************)
BadConfiguration(tote_config) ==
    \/ tote_config.HEIGHT_MAP_RESOLUTION <= 0
    \/ tote_config.TOTE_MAX_LENGTH <= 0
    \/ tote_config.TOTE_MAX_WIDTH <= 0
    \/ tote_config.TOTE_MAX_HEIGHT <= 0
    \/ tote_config.GRID_DIM_X <= 0
    \/ tote_config.GRID_DIM_Y <= 0
    \/ tote_config.TOTE_MAX_VOLUME #
           tote_config.TOTE_MAX_LENGTH * tote_config.TOTE_MAX_WIDTH
               * tote_config.TOTE_MAX_HEIGHT

C14_BadConfigurationRefused ==
    BadConfiguration(current_tote_config) =>
        /\ processed_cases = 0
        /\ pc \notin {"done", "raised"}
        /\ CountItems(AllTotes) = 0
        /\ pc # "start" =>
              \A t \in 1..Len(AllTotes) :
                  /\ AllTotes[t].grid_dim_x > 0 /\ AllTotes[t].grid_dim_y > 0
                  /\ DOMAIN AllTotes[t].height_map # {}

(***************************************************************************)
(* C15.  attempt_place_case returns, among all admissible candidates       *)
(* (orientation k in enumeration order, anchor (x, y) with the footprint   *)
(* inside the grid, base_z + oriented height <= max_height, base_z the     *)
(* highest height-map value under the footprint), the smallest one in the  *)
(* lexicographic order of (base_z, k, y, x), and can_fit = FALSE exactly   *)
(* when there is no admissible candidate.  Stated for every Search the     *)
(* driver makes, by what the driver does with its result: the item it      *)
(* commits, to the open tote or to the fresh tote after a rollover,        *)
(* carries the smallest candidate of that tote, and it commits to a tote   *)
(* unless that tote has no candidate or too little remaining volume.       *)
(***************************************************************************)
\* the admissible candidates <<base_z, k, y, x>> of a case in a tote
Candidates(case_obj, tote_obj) ==
    LET grid_L(k) == case_grid(case_obj.orientations[k][1], tote_obj)
        grid_W(k) == case_grid(case_obj.orientations[k][2], tote_obj)
        inside(k) == (0..(tote_obj.grid_dim_x - grid_L(k)))
                         \X (0..(tote_obj.grid_dim_y - grid_W(k)))
        all == UNION { { << SurfaceUnder(tote_obj.height_map,
                                         FootprintCells(a[1], a[2], grid_L(k), grid_W(k))),
                            k, a[2], a[1] >> : a \in inside(k) } :
                       k \in 1..Len(case_obj.orientations) }
    IN  { c \in all : c[1] + case_obj.orientations[c[2]][3] <= tote_obj.max_height }

\* the tuples of S that are smallest in coordinate i
LeastIn(S, i) ==
    UNION { { c \in S : c[i] = m } : m \in { SetMin({ d[i] : d \in S }) } }

\* the smallest tuple of a set in the lexicographic order
LexMin(S) ==
    CHOOSE c \in LeastIn(LeastIn(LeastIn(LeastIn(S, 1), 2), 3), 4) : TRUE

\* the placement is the smallest of the candidates C, or no placement when
\* there is none
IsLexMinPlacement(placement, case_obj, C) ==
    IF C = {}
    THEN ~placement.can_fit
    ELSE \A m \in { LexMin(C) } :
             /\ placement.can_fit
             /\ placement.placement_z_level = m[1]
             /\ placement.chosen_orientation_dims = case_obj.orientations[m[2]]
             /\ placement.position_in_tote_grid = <<m[4], m[3]>>

\* the placement fields of a committed item
PlacementOf(item) ==
    [ can_fit                 |-> TRUE,
      chosen_orientation_dims |-> item.chosen_orientation_dims,
      position_in_tote_grid   |-> item.position_in_tote_grid,
      placement_z_level       |-> item.placement_z_level ]

C15_SearchReturnsLowestFirst ==
    [][ ReadsAcceptedRecord =>
          LET raw == Last(case_data_list')
              c == get_case_properties(processed_cases', raw[1], raw[2], raw[3])
              fresh == create_new_empty_tote(next_tote_id + 1, current_tote_config)
          IN  /\ \A C \in { Candidates(c, current_tote) } :
                    IF CommittedToOpenTote
                    THEN IsLexMinPlacement(PlacementOf(Last(current_tote'.items)), c, C)
                    ELSE C = {} \/ c.volume > current_tote.remaining_volume
              /\ ~CommittedToOpenTote =>
                    \A C \in { Candidates(c, fresh) } :
                        IF CommittedToFreshTote
                        THEN IsLexMinPlacement(PlacementOf(Last(current_tote'.items)),
                                               c, C)
                        ELSE C = {} \/ c.volume > fresh.remaining_volume
      ]_vars

\* a Search that passed over admissible candidates with a higher base: the
\* first item lies at the anchor (0,0), the second item could stand on it in
\* its first orientation, and was placed on the floor at a later anchor
C15_Witness ==
    /\ Len(current_tote.items) = 2
    /\ search_calls = 1
    /\ current_tote.items[1].position_in_tote_grid = <<0, 0>>
    /\ current_tote.items[2].placement_z_level = 0
    /\ current_tote.items[2].position_in_tote_grid # <<0, 0>>
    /\ case_grid(current_tote.items[2].orientations[1][1], current_tote)
           <= current_tote.grid_dim_x
    /\ case_grid(current_tote.items[2].orientations[1][2], current_tote)
           <= current_tote.grid_dim_y
    /\ current_tote.items[1].chosen_orientation_dims[3]
           + current_tote.items[2].orientations[1][3] <= current_tote.max_height

(***************************************************************************)
(* C16.  A call of attempt_place_case that no commit follows changes       *)
(* nothing: the tote's height_map, items, remaining_volume and utilization *)
(* and the item's placement fields are as before the call, and a repeated  *)
(* call on the same item and tote returns the same result.  In the driver: *)
(* when the Search on the open tote is not followed by a commit, the tote  *)
(* is stored as it was before the Search, with the utilization Finalize    *)
(* computes from those values, and a second Search of the item on the tote *)
(* the first Search left behind returns what the first returned.           *)
(***************************************************************************)
\* the step searches the open tote and does not commit to it
SearchedWithoutCommit == ReadsAcceptedRecord /\ ~CommittedToOpenTote

RECURSIVE SecondRun(_, _, _)
SecondRun(records, tote_config, total) ==
    IF records = <<>>
    THEN [ st    |-> Locals(create_new_empty_tote(1, tote_config), <<>>, 1, <<>>, <<>>),
           calls |-> 0,
           yield |-> Snapshot(<<0, 1>>, <<>>, <<>>, <<>>, FALSE) ]
    ELSE LET before == SecondRun(SubSeq(records, 1, Len(records) - 1), tote_config, total)
             raw == Last(records)
         IN  LoopIteration(before.st,
                           get_case_properties(Len(records), raw[1], raw[2], raw[3]),
                           tote_config, Progress(Len(records), total))

\* the outputs of two runs are the same
SameOutput(shown, st, other) ==
    /\ shown = other.yield
    /\ st.all_processed_totes_full_data = other.st.all_processed_totes_full_data
    /\ st.unplaceable_cases_log = other.st.unplaceable_cases_log

ItemInsideGrid(tote, item) ==
    LET grid_x == item.position_in_tote_grid[1]
        grid_y == item.position_in_tote_grid[2]
        res == tote.height_map_resolution
    IN  /\ 0 <= grid_x
        /\ grid_x + Ceil(item.chosen_orientation_dims[1], res) <= tote.grid_dim_x
        /\ 0 <= grid_y
        /\ grid_y + Ceil(item.chosen_orientation_dims[2], res) <= tote.grid_dim_y
        /\ item.placement_z_level >= 0
        /\ item.placement_z_level + item.chosen_orientation_dims[3] <= tote.max_height

HeightMapUnderLimit(tote) ==
    \A x \in 0..(tote.grid_dim_x - 1) :
        \A y \in 0..(tote.grid_dim_y - 1) :
            /\ 0 <= tote.height_map[x][y]
            /\ tote.height_map[x][y] <= tote.max_height

C18_InsideGridUnderHeightLimit ==
    /\ \A t \in 1..Len(AllTotes) :
          /\ HeightMapUnderLimit(AllTotes[t])
          /\ \A i \in 1..Len(AllTotes[t].items) :
                ItemInsideGrid(AllTotes[t], AllTotes[t].items[i])
    /\ \A t \in 1..Len(yielded.intermediate_totes_data) :
          HeightMapUnderLimit(yielded.intermediate_totes_data[t])

\* the height limit refused an item: it fitted the open tote by volume,
\* every admissible footprint stood on an item that left too little room
\* above, and the item went to the next tote
C18_Witness ==
    /\ pc = "loop"
    /\ search_calls = 2
    /\ Len(all_processed_totes_full_data) >= 1
    /\ Len(current_tote.items) = 1
    /\ Last(all_processed_totes_full_data).remaining_volume
           >= current_tote.items[1].volume
    /\ Last(all_processed_totes_full_data).height_map[0][0] > 0
    /\ \A k \in 1..6 :
          Last(all_processed_totes_full_data).height_map[0][0]
              + current_tote.items[1].orientations[k][3] > current_tote.max_height

(***************************************************************************)
(* C19.  For every finite item stream the run ends with a final snapshot   *)
(* (is_final, progress 1.0) after it processed each item exactly once in   *)
(* input order.  Each item gets at most two Search attempts (the open      *)
(* tote, then one fresh tote) and makes at most one tote be stored and one *)
(* be opened, so the totes created are at most the items processed + 1.    *)
(* An item that is not placed is logged, raises no error and does not stop *)
(* the run.                                                                *)
(***************************************************************************)
\* the skus of a list of records are in stream order
InStreamOrder(skus) ==
    \A i, j \in 1..Len(skus) : i < j => skus[i] < skus[j]

SkusOfRecords(records) == [ i \in 1..Len(records) |-> records[i].case_sku ]
SkusOfLog(log) == [ i \in 1..Len(log) |-> log[i].sku ]

\* the step handles an item and leaves it in no tote
ItemNotPlaced ==
    /\ processed_cases' = processed_cases + 1
    /\ CountItems(AllTotes') = CountItems(AllTotes)

C19_TerminatesEachItemOnce ==
    /\ <>(/\ pc = "done"
          /\ yielded.is_final
          /\ yielded.progress = <<1, 1>>
          /\ processed_cases = total_cases)
    /\ [](/\ pc # "raised"
          /\ search_calls <= 2
          /\ next_tote_id <= processed_cases + 1
          /\ Len(AllTotes) <= processed_cases + 1
          /\ Len(case_data_list) = processed_cases
          /\ processed_cases <= total_cases
          /\ InStreamOrder(SkusOfRecords(VisRecordsOf(AllTotes)))
          /\ InStreamOrder(SkusOfLog(unplaceable_cases_log)))
    /\ [][ /\ processed_cases' \in {processed_cases, processed_cases + 1}
           /\ processed_cases' = processed_cases + 1 =>
                 /\ pc = "loop" /\ pc' = "loop"
                 /\ SubSeq(case_data_list', 1, processed_cases) = case_data_list
                 /\ yielded'.progress = Frac(processed_cases', total_cases)
                 /\ ~yielded'.is_final
           /\ next_tote_id' \in {next_tote_id, next_tote_id + 1}
           /\ Len(all_processed_totes_full_data')
                  \in { Len(all_processed_totes_full_data),
                        Len(all_processed_totes_full_data) + 1 }
           /\ ItemNotPlaced =>
                 /\ Len(unplaceable_cases_log') = Len(unplaceable_cases_log) + 1
                 /\ Last(unplaceable_cases_log').sku = processed_cases'
                 /\ pc' = "loop"
         ]_vars

\* a run that came to its end after an item in mid-stream was logged as
\* unplaceable and the item after it was placed
C19_Witness ==
    /\ pc = "done"
    /\ yielded.is_final
    /\ processed_cases = 3
    /\ \E e \in 1..Len(unplaceable_cases_log) : unplaceable_cases_log[e].sku = 2
    /\ PlacesOf(1, AllTotes) # {}
    /\ PlacesOf(3, AllTotes) # {}

(***************************************************************************)
(* C20.  An item that passes the pre-checks and is searched against an     *)
(* empty tote is placed at grid (0,0) with placement_z_level 0, in the     *)
(* first orientation of the enumeration order whose footprint fits the     *)
(* grid and whose height is <= max_height, and its utilization snapshot is *)
(* 100 * volume / max_volume.  The first item of every tote is such an     *)
(* item.  Instance: tote 1000x1000x1000, resolution 100, one item          *)
(* 500x500x500: placed in tote 1 at (0,0), z = 0, utilization 12.5 %.      *)
(***************************************************************************)
\* the orientations, by index, that fit an empty tote
FitsEmptyTote(item, tote) ==
    { k \in 1..Len(item.orientations) :
        /\ Ceil(item.orientations[k][1], tote.height_map_resolution) <= tote.grid_dim_x
        /\ Ceil(item.orientations[k][2], tote.height_map_resolution) <= tote.grid_dim_y
        /\ item.orientations[k][3] <= tote.max_height }

\* util, a fraction <<n, d>>, is 100 * volume / max_volume: a hundredth of
\* util and volume / max_volume are the same fraction in lowest terms
UtilizationIs(util, volume, max_volume) ==
    Frac(util[1], 100 * util[2]) = Frac(volume, max_volume)

PlacedFirstInEmptyTote(item, tote) ==
    /\ item.position_in_tote_grid = <<0, 0>>
    /\ item.placement_z_level = 0
    /\ FitsEmptyTote(item, tote) # {}
    /\ item.chosen_orientation_dims = item.orientations[SetMin(FitsEmptyTote(item, tote))]
    /\ UtilizationIs(item.interim_tote_utilization_at_placement,
                     item.volume, tote.max_volume)

ScenarioA ==
    /\ current_tote_config = dynamic_tote_config(1000, 1000, 1000, 100)
    /\ processed_cases >= 1
    /\ case_data_list[1] = <<500, 500, 500>>

ScenarioAOutcome ==
    /\ Len(AllTotes) >= 1
    /\ AllTotes[1].id = 1
    /\ Len(AllTotes[1].items) >= 1
    /\ AllTotes[1].items[1].sku = 1
    /\ AllTotes[1].items[1].position_in_tote_grid = <<0, 0>>
    /\ AllTotes[1].items[1].placement_z_level = 0
    /\ AllTotes[1].items[1].interim_tote_utilization_at_placement = <<25, 2>>
    /\ unplaceable_cases_log = <<>> \/ unplaceable_cases_log[1].sku > 1

RecordsBefore(totes, t) == CountItems(SubSeq(totes, 1, t - 1))

\* record is the flat record of the i-th item of tote
IsRecordOf(record, tote, i) ==
    LET item == tote.items[i]
    IN  /\ record.tote_id = tote.id
        /\ record.case_sku = item.sku
        /\ record.tote_dimensions_mm = <<tote.max_length, tote.max_width, tote.max_height>>
        /\ record.original_case_dims_mm = item.original_dims
        /\ record.placed_case_dims_mm = item.chosen_orientation_dims
        /\ record.position_mm[1] = item.position_in_tote_grid[1] * tote.height_map_resolution
        /\ record.position_mm[2] = item.position_in_tote_grid[2] * tote.height_map_resolution
        /\ record.position_mm[3] = item.placement_z_level
        /\ record.current_tote_utilization_percent
               = item.interim_tote_utilization_at_placement

\* the tote ids of a list of records never decrease
ToteIdsAscending(records) ==
    \A q, r \in 1..Len(records) : q < r => records[q].tote_id <= records[r].tote_id

C21_FinalRecordsOfFinalizedTotes ==
    (pc = "done" /\ yielded.is_final) =>
        LET totes == all_processed_totes_full_data
            records == yielded.intermediate_vis_data
        IN  /\ yielded.intermediate_totes_data = totes
            /\ Len(records) = CountItems(totes)
            /\ \A t \in 1..Len(totes) :
                  \A i \in 1..Len(totes[t].items) :
                      IsRecordOf(records[RecordsBefore(totes, t) + i], totes[t], i)
            /\ ToteIdsAscending(records)
            /\ InStreamOrder(SkusOfRecords(records))
            /\ Len(records) + Len(unplaceable_cases_log) = total_cases

\* a final output over two totes, with a record away from the origin of its
\* tote
C21_Witness ==
    /\ pc = "done"
    /\ Len(all_processed_totes_full_data) = 2
    /\ Len(yielded.intermediate_vis_data) = 3
    /\ yielded.intermediate_vis_data[1].tote_id = 1
    /\ yielded.intermediate_vis_data[3].tote_id = 2
    /\ \E r \in 1..3 : yielded.intermediate_vis_data[r].position_mm[1] > 0

(***************************************************************************)
(* C22.  For every item record, records with zero or negative dimensions   *)
(* included, get_case_properties applies one clamping policy: each         *)
(* dimension of original_dims and of every orientation is clamped to >= 1, *)
(* and the item's volume equals the product of its (clamped)               *)
(* original_dims and is >= 1.                                              *)
(***************************************************************************)
\* every dimension the case carries is at least 1
DimensionsClamped(case_obj) ==
    /\ \A d \in 1..3 : case_obj.original_dims[d] >= 1
    /\ \A k \in 1..Len(case_obj.orientations) :
          \A d \in 1..3 : case_obj.orientations[k][d] >= 1

\* the volume the case carries is that of the dimensions it carries
VolumeOfClampedDims(case_obj) ==
    /\ case_obj.volume >= 1
    /\ case_obj.volume = case_obj.original_dims[1] * case_obj.original_dims[2]
                             * case_obj.original_dims[3]

C22_OneClampingPolicy ==
    \A i \in 1..processed_cases :
        DimensionsClamped(CaseOf(i)) /\ VolumeOfClampedDims(CaseOf(i))

(***************************************************************************)
(* C23.  A Commit changes exactly this and nothing else: every height_map  *)
(* cell in the footprint rectangle [x, x+ceil(L/res)) x [y, y+ceil(W/res)) *)
(* becomes base_z + oriented height (a uniform top, whatever the cells     *)
(* held before), every cell outside the footprint is unchanged, the item   *)
(* is appended at the end of tote.items, remaining_volume decreases by the *)
(* item's volume, and the tote's id, dimensions and max_volume are         *)
(* unchanged.  Checked for both commits of the driver: to the open tote,   *)
(* and to the fresh tote of a rollover.                                    *)
(***************************************************************************)
\* the rectangle [x, x+ceil(L/res)) x [y, y+ceil(W/res)) of a placed item
FootprintRectangle(tote, item) ==
    { <<gx, gy>> \in (0..(tote.grid_dim_x - 1)) \X (0..(tote.grid_dim_y - 1)) :
        /\ item.position_in_tote_grid[1] <= gx
        /\ gx < item.position_in_tote_grid[1]
                    + Ceil(item.chosen_orientation_dims[1], tote.height_map_resolution)
        /\ item.position_in_tote_grid[2] <= gy
        /\ gy < item.position_in_tote_grid[2]
                    + Ceil(item.chosen_orientation_dims[2], tote.height_map_resolution) }

\* after is before with one item committed, and nothing else changed
CommitEffect(before, after) ==
    LET item == Last(after.items)
        top == item.placement_z_level + item.chosen_orientation_dims[3]
        rect == FootprintRectangle(before, item)
    IN  /\ rect # {}
        /\ \A gx \in 0..(before.grid_dim_x - 1), gy \in 0..(before.grid_dim_y - 1) :
              after.height_map[gx][gy] =
                  IF <<gx, gy>> \in rect THEN top ELSE before.height_map[gx][gy]
        /\ DOMAIN after.height_map = DOMAIN before.height_map
        /\ after.items = Append(before.items, item)
        /\ after.remaining_volume = before.remaining_volume - item.volume
        /\ after = [ before EXCEPT !.height_map = after.height_map,
                                   !.items = after.items,
                                   !.remaining_volume = after.remaining_volume ]

C23_CommitChangesExactlyThis ==
    [][ /\ CommittedToOpenTote => CommitEffect(current_tote, current_tote')
        /\ CommittedToFreshTote =>
              CommitEffect(create_new_empty_tote(next_tote_id', current_tote_config),
                           current_tote')
      ]_vars

\* a commit over a footprint that was not flat: the third item rests on an
\* earlier one and also covers a cell that was empty, now at the same top
C23_Witness ==
    /\ Len(current_tote.items) = 3
    /\ search_calls = 1
    /\ LET item == current_tote.items[3]
           top == item.placement_z_level + item.chosen_orientation_dims[3]
       IN  /\ item.placement_z_level > 0
           /\ \E c \in FootprintRectangle(current_tote, item) :
                 /\ \A i \in 1..2 : c \notin ItemCells(current_tote, current_tote.items[i])
                 /\ current_tote.height_map[c[1]][c[2]] = top

(***************************************************************************)
(* C24.  The driver commits an item to a tote only when item.volume <=     *)
(* that tote's remaining_volume at that moment; therefore                  *)
(* remaining_volume is >= 0 for every tote in every reachable state, and   *)
(* every utilization value (per-item snapshot and final tote utilization)  *)
(* lies between 0 and 100 percent.                                         *)
(***************************************************************************)
\* a utilization <<n, d>> between 0 and 100 percent
WithinPercentRange(util) == 0 <= util[1] /\ util[1] <= 100 * util[2]

VolumeAndUtilizationInRange(tote) ==
    /\ tote.remaining_volume >= 0
    /\ WithinPercentRange(tote.utilization_percent)
    /\ \A i \in 1..Len(tote.items) :
          WithinPercentRange(tote.items[i].interim_tote_utilization_at_placement)

C24_CommitOnlyWithinRemainingVolume ==
    /\ [][ /\ CommittedToOpenTote =>
                Last(current_tote'.items).volume <= current_tote.remaining_volume
           /\ CommittedToFreshTote =>
                Last(current_tote'.items).volume <=
                    create_new_empty_tote(next_tote_id', current_tote_config).remaining_volume
         ]_vars
    /\ [] ( /\ \A t \in 1..Len(AllTotes) : VolumeAndUtilizationInRange(AllTotes[t])
            /\ \A t \in 1..Len(yielded.intermediate_totes_data) :
                  VolumeAndUtilizationInRange(yielded.intermediate_totes_data[t])
            /\ \A r \in 1..Len(yielded.intermediate_vis_data) :
                  WithinPercentRange(
                      yielded.intermediate_vis_data[r].current_tote_utilization_percent) )

\* the gate decided: tote 1 holds one item of 3 000 000 mm3 and has
\* 2 000 000 mm3 left, the next item of 3 000 000 mm3, for which the grid of
\* tote 1 had room, went to tote 2
C24_Witness ==
    /\ current_tote_config.TOTE_MAX_VOLUME = 5000000
    /\ pc = "loop"
    /\ processed_cases = 2
    /\ Len(all_processed_totes_full_data) = 1
    /\ all_processed_totes_full_data[1].remaining_volume = 2000000
    /\ all_processed_totes_full_data[1].utilization_percent = <<60, 1>>
    /\ Len(current_tote.items) = 1
    /\ current_tote.items[1].volume = 3000000
    /\ attempt_place_case(CaseOf(2), all_processed_totes_full_data[1]).can_fit

(***************************************************************************)
(* C25.  Each placed item's utilization snapshot equals 100 * (sum of the  *)
(* volumes of the items placed in that tote up to and including it) /      *)
(* max_volume, so snapshots strictly increase along a tote's items list; a *)
(* finalized tote's utilization_percent equals the snapshot of its last    *)
(* item, and is 0 for a tote finalized with no items.                      *)
(***************************************************************************)
\* a / b < c / d for a, c >= 0 and b, d > 0, by integer parts and remainders
RECURSIVE FracLess(_, _, _, _)
FracLess(a, b, c, d) ==
    IF a \div b # c \div d THEN a \div b < c \div d
    ELSE IF c % d = 0 THEN FALSE
    ELSE IF a % b = 0 THEN TRUE
    ELSE FracLess(d, c % d, b, a % b)

SnapshotsOfTote(tote) ==
    /\ \A i \in 1..Len(tote.items) :
          UtilizationIs(tote.items[i].interim_tote_utilization_at_placement,
                        SumVolumes(SubSeq(tote.items, 1, i)), tote.max_volume)
    /\ \A i \in 1..(Len(tote.items) - 1) :
          LET u == tote.items[i].interim_tote_utilization_at_placement
              v == tote.items[i + 1].interim_tote_utilization_at_placement
          IN  FracLess(u[1], u[2], v[1], v[2])

FinalUtilizationOfTote(tote) ==
    IF tote.items = <<>> THEN tote.utilization_percent = <<0, 1>>
    ELSE tote.utilization_percent
             = Last(tote.items).interim_tote_utilization_at_placement

\* the totes of the last yield that were finalized when it was made
FinalizedInYield ==
    IF yielded.is_final THEN yielded.intermediate_totes_data
    ELSE SubSeq(yielded.intermediate_totes_data, 1,
                Len(yielded.intermediate_totes_data) - 1)

C25_UtilizationSnapshots ==
    /\ \A t \in 1..Len(AllTotes) : SnapshotsOfTote(AllTotes[t])
    /\ \A t \in 1..Len(yielded.intermediate_totes_data) :
          SnapshotsOfTote(yielded.intermediate_totes_data[t])
    /\ \A t \in 1..Len(all_processed_totes_full_data) :
          FinalUtilizationOfTote(all_processed_totes_full_data[t])
    /\ \A t \in 1..Len(FinalizedInYield) : FinalUtilizationOfTote(FinalizedInYield[t])

\* a tote finalized with two items, at the utilization of the second one
C25_Witness ==
    /\ Len(all_processed_totes_full_data) >= 1
    /\ Len(all_processed_totes_full_data[1].items) = 2
    /\ all_processed_totes_full_data[1].items[1].volume
           # all_processed_totes_full_data[1].items[2].volume
    /\ all_processed_totes_full_data[1].utilization_percent
           = all_processed_totes_full_data[1].items[2].interim_tote_utilization_at_placement
    /\ all_processed_totes_full_data[1].utilization_percent
           # all_processed_totes_full_data[1].items[1].interim_tote_utilization_at_placement

\* a tote finalized with no items, at 0 percent
C25_WitnessEmptyTote ==
    /\ pc = "done"
    /\ total_cases > 0
    /\ Len(all_processed_totes_full_data) = 1
    /\ all_processed_totes_full_data[1].items = <<>>
    /\ all_processed_totes_full_data[1].utilization_percent = <<0, 1>>

(***************************************************************************)
(* C26.  The volumetric gate and the geometric Search can disagree in both *)
(* directions: there are reachable driver states in which Search admits    *)
(* the item against the open tote but item.volume > remaining_volume, so   *)
(* the tote is finalized although the item fits geometrically, and         *)
(* reachable states in which the gate passes but Search finds no           *)
(* admissible placement.  Stated as: whenever the two checks disagree on   *)
(* an item, in either direction, the open tote is finalized as it was and  *)
(* the item goes to the fresh tote; the witness is a run in which each     *)
(* direction has happened.                                                 *)
(***************************************************************************)
\* Search admits the case in the tote and its volume exceeds what is left
SearchAdmitsGateRefuses(case_obj, tote) ==
    /\ attempt_place_case(case_obj, tote).can_fit
    /\ case_obj.volume > tote.remaining_volume

\* the volume of the case is within what is left and Search finds no placement
GatePassesSearchRefuses(case_obj, tote) ==
    /\ case_obj.volume <= tote.remaining_volume
    /\ ~attempt_place_case(case_obj, tote).can_fit

\* the step stored the open tote with the items it had and opened the next
FinalizedAsItWas ==
    /\ Len(all_processed_totes_full_data') = Len(all_processed_totes_full_data) + 1
    /\ Last(all_processed_totes_full_data').id = current_tote.id
    /\ Last(all_processed_totes_full_data').items = current_tote.items
    /\ Last(all_processed_totes_full_data').remaining_volume
           = current_tote.remaining_volume
    /\ current_tote'.id = current_tote.id + 1

C26_GateAndSearchDisagree ==
    [][ ReadsAcceptedRecord =>
          \A c \in { get_case_properties(processed_cases', Last(case_data_list')[1],
                                          Last(case_data_list')[2],
                                          Last(case_data_list')[3]) } :
              ( \/ SearchAdmitsGateRefuses(c, current_tote)
                \/ GatePassesSearchRefuses(c, current_tote) )
                  => /\ FinalizedAsItWas
                     /\ Len(current_tote'.items) = 1
                     /\ current_tote'.items[1].sku = c.sku
      ]_vars

\* both directions in one run: tote 1 (one layer of 300x200x150, 6 000 000
\* mm3 left) was finalized on an item of 9 000 000 mm3 that Search admitted
\* on top of the layer, and tote 2 on an item of 5 120 000 mm3 that passed
\* the gate and has no placement above the layer
C26_Witness ==
    /\ pc = "loop"
    /\ processed_cases = 3
    /\ Len(all_processed_totes_full_data) = 2
    /\ Len(current_tote.items) = 1
    /\ SearchAdmitsGateRefuses(CaseOf(2), all_processed_totes_full_data[1])
    /\ GatePassesSearchRefuses(CaseOf(3), all_processed_totes_full_data[2])

(***************************************************************************)
(* C27.  With a consistent configuration (max_volume = max_length *        *)
(* max_width * max_height, grid_dim_x = ceil(max_length / res),            *)
(* grid_dim_y = ceil(max_width / res), res >= 1), every item that passes   *)
(* the step-2 pre-checks is placed, in the open tote or in the fresh one:  *)
(* the branch that logs 'could not fit new empty tote' is unreachable, so  *)
(* the only unplaceable reasons ever logged are too-large-by-volume and    *)
(* too-large-by-dimensions.                                                *)
(***************************************************************************)
ConsistentConfiguration(tote_config) ==
    /\ tote_config.HEIGHT_MAP_RESOLUTION >= 1
    /\ tote_config.TOTE_MAX_VOLUME =
           tote_config.TOTE_MAX_LENGTH * tote_config.TOTE_MAX_WIDTH
               * tote_config.TOTE_MAX_HEIGHT
    /\ tote_config.GRID_DIM_X =
           Ceil(tote_config.TOTE_MAX_LENGTH, tote_config.HEIGHT_MAP_RESOLUTION)
    /\ tote_config.GRID_DIM_Y =
           Ceil(tote_config.TOTE_MAX_WIDTH, tote_config.HEIGHT_MAP_RESOLUTION)

TooLargeReasons ==
    { "Fundamentally too large (volume)", "Fundamentally too large (dimensions)" }

OnlyTooLargeReasons(log) == \A e \in 1..Len(log) : log[e].reason \in TooLargeReasons

C27_AcceptedItemIsPlaced ==
    /\ [][ (ConsistentConfiguration(current_tote_config) /\ ReadsAcceptedRecord) =>
             /\ unplaceable_cases_log' = unplaceable_cases_log
             /\ Len(current_tote'.items) >= 1
             /\ Last(current_tote'.items).sku = processed_cases'
             /\ CommittedToOpenTote \/ CommittedToFreshTote
         ]_vars
    /\ [] ( ConsistentConfiguration(current_tote_config) =>
              /\ OnlyTooLargeReasons(unplaceable_cases_log)
              /\ OnlyTooLargeReasons(yielded.unplaceable_log) )

\* an item skipped for its dimensions, then two accepted items, the second
\* of them placed in the fresh tote of a rollover
C27_Witness ==
    /\ ConsistentConfiguration(current_tote_config)
    /\ pc = "loop"
    /\ processed_cases = 3
    /\ Len(unplaceable_cases_log) = 1
    /\ unplaceable_cases_log[1] =
           [sku |-> 1, reason |-> "Fundamentally too large (dimensions)"]
    /\ search_calls = 2
    /\ Len(all_processed_totes_full_data) = 1
    /\ all_processed_totes_full_data[1].items[1].sku = 2
    /\ current_tote.items[1].sku = 3

(***************************************************************************)
(* C28.  With a consistent configuration, no empty tote is ever finalized  *)
(* by a rollover: every tote in the result list holds at least one item,   *)
(* except a result list that consists of tote #1 alone when no item of the *)
(* stream was placed.                                                      *)
(***************************************************************************)
\* the step finalizes the open tote and opens the next (lines 190-198)
RolloverStep == next_tote_id' = next_tote_id + 1

\* the result list is tote #1 alone, stored at the end of a run that placed
\* nothing
OnlyToteOneOfRunWithoutPlacement(totes) ==
    /\ pc = "done"
    /\ Len(totes) = 1
    /\ totes[1].id = 1
    /\ Len(unplaceable_cases_log) = total_cases

NoEmptyToteIn(totes) ==
    \/ \A t \in 1..Len(totes) : totes[t].items # <<>>
    \/ OnlyToteOneOfRunWithoutPlacement(totes)

C28_NoEmptyToteFinalizedByRollover ==
    /\ [][ (ConsistentConfiguration(current_tote_config) /\ RolloverStep) =>
             /\ current_tote.items # <<>>
             /\ Last(all_processed_totes_full_data').items # <<>>
             /\ current_tote'.items # <<>>
         ]_vars
    /\ [] ( ConsistentConfiguration(current_tote_config) =>
              /\ NoEmptyToteIn(all_processed_totes_full_data)
              /\ yielded.is_final => NoEmptyToteIn(yielded.intermediate_totes_data)
              /\ (pc = "loop" /\ current_tote.items = <<>>) =>
                    (current_tote.id = 1 /\ all_processed_totes_full_data = <<>>) )

\* a finished run with a rollover and a skipped item: two totes in the
\* result list, each with one item
C28_Witness ==
    /\ ConsistentConfiguration(current_tote_config)
    /\ pc = "done"
    /\ yielded.is_final
    /\ Len(yielded.intermediate_totes_data) = 2
    /\ Len(yielded.intermediate_totes_data[1].items) = 1
    /\ Len(yielded.intermediate_totes_data[2].items) = 1
    /\ Len(unplaceable_cases_log) = 1

(***************************************************************************)
(* C29.  When the tote dimensions are integer multiples of the resolution, *)
(* max_volume = max_length * max_width * max_height and all item           *)
(* dimensions are positive integers, the volumetric gate never rejects an  *)
(* item that Search admits: in every reachable tote state, can_fit = true  *)
(* implies item.volume <= remaining_volume, so a tote is finalized only    *)
(* for lack of a geometric fit.  Checked for every record the loop reads   *)
(* in every state of the open tote, whether or not the pre-check passes    *)
(* it.                                                                     *)
(***************************************************************************)
WholeCellsConfiguration(tote_config) ==
    /\ ConsistentConfiguration(tote_config)
    /\ tote_config.TOTE_MAX_LENGTH % tote_config.HEIGHT_MAP_RESOLUTION = 0
    /\ tote_config.TOTE_MAX_WIDTH % tote_config.HEIGHT_MAP_RESOLUTION = 0
    /\ tote_config.TOTE_MAX_HEIGHT % tote_config.HEIGHT_MAP_RESOLUTION = 0

\* the step reads a record whose three dimensions are positive
ReadsPositiveRecord ==
    /\ pc = "loop"
    /\ processed_cases' = processed_cases + 1
    /\ \A d \in 1..3 : Last(case_data_list')[d] >= 1

C29_GateNeverRefusesWhatSearchAdmits ==
    [][ (WholeCellsConfiguration(current_tote_config) /\ ReadsPositiveRecord) =>
          \A c \in { get_case_properties(processed_cases', Last(case_data_list')[1],
                                          Last(case_data_list')[2],
                                          Last(case_data_list')[3]) } :
              \A placement \in { attempt_place_case(c, current_tote) } :
                  /\ placement.can_fit => c.volume <= current_tote.remaining_volume
                  /\ (placement.can_fit /\ ReadsAcceptedRecord) => CommittedToOpenTote
                  /\ RolloverStep => ~placement.can_fit
      ]_vars

\* a tote of whole cells filled to the last cubic millimetre by two items,
\* finalized on a third that Search does not admit
C29_Witness ==
    /\ WholeCellsConfiguration(current_tote_config)
    /\ pc = "loop"
    /\ processed_cases = 3
    /\ \A d \in 1..3 : case_data_list[3][d] >= 1
    /\ Len(all_processed_totes_full_data) = 1
    /\ Len(all_processed_totes_full_data[1].items) = 2
    /\ all_processed_totes_full_data[1].remaining_volume = 0
    /\ current_tote.id = 2
    /\ Len(current_tote.items) = 1

(***************************************************************************)
(* C30.  In the app's run/pause state machine the simulation generator is  *)
(* advanced only while simulation_running is true and simulation_paused is *)
(* false, by exactly one step per rerun; simulation_paused is never true   *)
(* while simulation_running is false; and for any interleaving of          *)
(* Pause/Resume clicks no item is skipped, repeated or rolled back, so the *)
(* stored final results equal those of an uninterrupted run on the same    *)
(* input.                                                                  *)
(***************************************************************************)
\* the generator is exactly one yield further: out of its first yield, past
\* one more record, or at its final yield
OneYieldFurther ==
    \/ pc = "start" /\ pc' = "loop" /\ processed_cases' = processed_cases
                    /\ case_data_list' = case_data_list
    \/ pc = "loop" /\ pc' = "loop" /\ processed_cases' = processed_cases + 1
                   /\ Len(case_data_list') = Len(case_data_list) + 1
                   /\ SubSeq(case_data_list', 1, Len(case_data_list)) = case_data_list
    \/ pc = "loop" /\ pc' = "done" /\ processed_cases' = processed_cases
                   /\ processed_cases = total_cases
                   /\ case_data_list' = case_data_list

\* the step is a Run click: whatever generator there was is dropped
GeneratorReplaced ==
    /\ ~session_state.simulation_running
    /\ pc' \in {"start", "idle"}
    /\ processed_cases' = 0
    /\ case_data_list' = <<>>

\* what the page stored at the end of the run is the final output of a run
\* of the generator, start to end, on the same records and configuration
StoredResultsOfUninterruptedRun ==
    \A again \in { FinalStep(SecondRun(case_data_list, current_tote_config,
                                         total_cases).st).yield } :
        /\ session_state.simulation_results.full_totes_summary_data
               = again.intermediate_totes_data
        /\ session_state.simulation_results.visualization_output_list
               = again.intermediate_vis_data
        /\ session_state.simulation_results.unplaceable_items_log
               = again.unplaceable_log

C30_RunPauseMachine ==
    /\ [][ generator_vars' # generator_vars =>
             IF session_state.simulation_running
             THEN /\ ~session_state.simulation_paused
                  /\ session_state.simulation_generator # "None"
                  /\ OneYieldFurther
                  /\ session_state'.intermediate_results = <<yielded'>>
             ELSE GeneratorReplaced
         ]_vars
    /\ [] ( /\ session_state.simulation_paused => session_state.simulation_running
            /\ session_state.simulation_generator # "None" =>
                  /\ session_state.simulation_running
                  /\ pc \in {"start", "loop"}
            /\ pc \in {"loop", "done"} =>
                  /\ Len(case_data_list) = processed_cases
                  /\ CountItems(AllTotes) + Len(unplaceable_cases_log) = processed_cases
            /\ session_state.simulation_ran =>
                  /\ pc = "done"
                  /\ processed_cases = total_cases
                  /\ ~session_state.simulation_running
                  /\ StoredResultsOfUninterruptedRun )

\* the run is paused after its second record of three, with a tote already
\* finalized: the page shows the yield of that record
C30_Witness ==
    /\ session_state.simulation_running
    /\ session_state.simulation_paused
    /\ session_state.simulation_generator = "generator"
    /\ pc = "loop"
    /\ total_cases = 3
    /\ processed_cases = 2
    /\ Len(all_processed_totes_full_data) = 1
    /\ session_state.intermediate_results = <<yielded>>
    /\ Len(yielded.intermediate_totes_data) = 2

====
